---- MODULE Spec2Model ----
(***************************************************************************)
(* PATCOM (packet-commander): the device firmware's configuration store,   *)
(* serial / UDP / HTTP control channels, button polling loop and action    *)
(* dispatch (firmware/patcom.cpp), and the coordinator's device registry   *)
(* (src/services/DiscoveryService.ts).                                     *)
(*                                                                         *)
(* Strings are TLA+ strings and are processed character by character, so   *)
(* that toUpperCase, startsWith, strlen and the hash fold are computed as  *)
(* the firmware computes them.  A JSON text is kept as its token tree      *)
(* (ArduinoJson is a library, not code of the repository): objects keep    *)
(* the order of their members, literals keep their spelling.               *)
(***************************************************************************)
EXTENDS Integers, Sequences, FiniteSets, TLC

(***************************************************************************)
(* Arduino String helpers                                                  *)
(***************************************************************************)
LowerCaseLetters ==
  <<"a","b","c","d","e","f","g","h","i","j","k","l","m",
    "n","o","p","q","r","s","t","u","v","w","x","y","z">>

UpperCaseLetters ==
  <<"A","B","C","D","E","F","G","H","I","J","K","L","M",
    "N","O","P","Q","R","S","T","U","V","W","X","Y","Z">>

\* toupper() of each lower-case letter
UpperOf ==
  [c \in {LowerCaseLetters[i] : i \in 1..26} |->
     UpperCaseLetters[CHOOSE i \in 1..26 : LowerCaseLetters[i] = c]]

\* toupper() of one character
toUpperChar(c) == IF c \in DOMAIN UpperOf THEN UpperOf[c] ELSE c

RECURSIVE toUpperCase(_)
\* String::toUpperCase(): every character of the string, in place
toUpperCase(s) ==
  IF s = "" THEN "" ELSE toUpperChar(Head(s)) \o toUpperCase(Tail(s))

\* String::startsWith
startsWith(s, prefix) ==
  /\ Len(s) >= Len(prefix)
  /\ SubSeq(s, 1, Len(prefix)) = prefix

\* String::substring(from)
substring(s, from) ==
  IF from >= Len(s) THEN "" ELSE SubSeq(s, from + 1, Len(s))

Digits == <<"0","1","2","3","4","5","6","7","8","9">>

isDigit(c) == \E i \in 1..10 : Digits[i] = c

digitValue(c) == (CHOOSE i \in 1..10 : Digits[i] = c) - 1

RECURSIVE atolDigits(_, _)
atolDigits(s, acc) ==
  IF s = "" \/ ~isDigit(Head(s)) THEN acc
  ELSE atolDigits(Tail(s), acc * 10 + digitValue(Head(s)))

\* String::toInt(): atol of the buffer; 0 when no leading number
toInt(s) ==
  IF s # "" /\ Head(s) = "-" THEN 0 - atolDigits(Tail(s), 0)
  ELSE atolDigits(s, 0)

RECURSIVE decimalDigits(_)
decimalDigits(n) ==
  IF n < 10 THEN Digits[n + 1] ELSE decimalDigits(n \div 10) \o Digits[(n % 10) + 1]

\* String(int): decimal rendering
StringOfInt(n) == IF n < 0 THEN "-" \o decimalDigits(0 - n) ELSE decimalDigits(n)

(***************************************************************************)
(* JSON texts.  A value is a record [t, s, n, m]:                          *)
(*   t = "str"  a string s            t = "num"  the integer n             *)
(*   t = "lit"  the bare word s       t = "obj"  members m = <<[k, v]..>>  *)
(*   t = "arr"  elements m            t = "bad"  a text that is not JSON   *)
(***************************************************************************)
JStr(s) == [t |-> "str", s |-> s, n |-> 0, m |-> <<>>]
JNum(n) == [t |-> "num", s |-> "", n |-> n, m |-> <<>>]
JLit(w) == [t |-> "lit", s |-> w, n |-> 0, m |-> <<>>]
JObj(members) == [t |-> "obj", s |-> "", n |-> 0, m |-> members]
JArr(elements) == [t |-> "arr", s |-> "", n |-> 0, m |-> elements]
JBad(text) == [t |-> "bad", s |-> text, n |-> 0, m |-> <<>>]
JNull == JLit("null")
KV(k, v) == [k |-> k, v |-> v]

RECURSIVE toUpperCaseJson(_)
\* String::toUpperCase() applied to a JSON text: keys, string values and
\* bare words are all characters of the text
toUpperCaseJson(j) ==
  CASE j.t = "obj" ->
         JObj([i \in 1..Len(j.m) |->
                 KV(toUpperCase(j.m[i].k), toUpperCaseJson(j.m[i].v))])
    [] j.t = "arr" -> JArr([i \in 1..Len(j.m) |-> toUpperCaseJson(j.m[i])])
    [] j.t = "num" -> j
    [] OTHER -> [j EXCEPT !.s = toUpperCase(j.s)]

RECURSIVE wellFormed(_)
\* deserializeJson succeeds: only true, false and null are JSON words
wellFormed(j) ==
  CASE j.t = "obj" -> \A i \in 1..Len(j.m) : wellFormed(j.m[i].v)
    [] j.t = "arr" -> \A i \in 1..Len(j.m) : wellFormed(j.m[i])
    [] j.t = "lit" -> j.s \in {"true", "false", "null"}
    [] j.t = "bad" -> FALSE
    [] OTHER -> TRUE

\* JsonVariant::containsKey
containsKey(j, key) ==
  /\ j.t = "obj"
  /\ \E i \in 1..Len(j.m) : j.m[i].k = key

\* JsonVariant::operator[]: the member, or null
member(j, key) ==
  IF containsKey(j, key)
    THEN j.m[CHOOSE i \in 1..Len(j.m) :
                /\ j.m[i].k = key
                /\ \A h \in 1..(i - 1) : j.m[h].k # key].v
    ELSE JNull

isString(j) == j.t = "str"
isInteger(j) == j.t = "num"
isBool(j) == j.t = "lit" /\ j.s \in {"true", "false"}

\* variant | default for const char*, int and bool
asStringOr(j, default) == IF isString(j) THEN j.s ELSE default
asIntOr(j, default) == IF isInteger(j) THEN j.n ELSE default
asBoolOr(j, default) == IF isBool(j) THEN j.s = "true" ELSE default

\* implicit conversions variant.as<int>() and variant.as<bool>()
asInt(j) == IF isInteger(j) THEN j.n ELSE IF isBool(j) /\ j.s = "true" THEN 1 ELSE 0
asBool(j) == IF isBool(j) THEN j.s = "true" ELSE isInteger(j) /\ j.n # 0

(***************************************************************************)
(* Firmware constants and global state (patcom.cpp)                        *)
(***************************************************************************)
VERSION == "2.1.0"
BUTTON_DEBOUNCE == 200
NUM_BUTTONS == 8
ACTION_NONE == 0
ACTION_HTTP == 1
ACTION_SERIAL == 2
ACTION_MIDI == 3
ACTION_SCRIPT == 4
ACTION_OSC == 5
ACTION_WEBHOOK == 6
DEVICE_TYPE_BUTTON_MATRIX == 0

ButtonIds == 0..(NUM_BUTTONS - 1)

\* the device id derived from the chip's eFuse MAC
EfuseDeviceId == "PATCOM-a1b2c3"

\* struct ButtonConfig as loadConfiguration fills it on first boot
DefaultButtonConfig(i) ==
  [name |-> "Button " \o StringOfInt(i),
   action |-> ACTION_NONE,
   actionData |-> JObj(<<>>),
   enabled |-> TRUE]

\* struct NetworkConfig as loadConfiguration fills it on first boot
DefaultNetworkConfig ==
  [ssid |-> "", password |-> "", staticIP |-> FALSE,
   ip |-> "", subnet |-> "", gateway |-> "", dns |-> "8.8.8.8"]

\* struct DeviceConfig as loadConfiguration fills it on first boot
DefaultDeviceConfig ==
  [deviceName |-> "PATCOM",
   deviceId |-> EfuseDeviceId,
   deviceType |-> DEVICE_TYPE_BUTTON_MATRIX,
   brightness |-> 255,
   discoverable |-> TRUE,
   heartbeatInterval |-> 5000,
   firmwareVersion |-> VERSION,
   autoSync |-> FALSE,
   configServerUrl |-> ""]

MAX_API_KEYS == 16

\* struct ApiKeyEntry as loadConfiguration clears it
EmptyApiKey == [name |-> "", value |-> "", active |-> FALSE]

\* the configuration globals together
DefaultConfig ==
  [buttonConfigs |-> [i \in ButtonIds |-> DefaultButtonConfig(i)],
   networkConfig |-> DefaultNetworkConfig,
   deviceConfig |-> DefaultDeviceConfig,
   apiKeys |-> [i \in 0..(MAX_API_KEYS - 1) |-> EmptyApiKey],
   customConfig |-> "{}"]

(***************************************************************************)
(* serializeJson of an action configuration, and the configuration hash    *)
(***************************************************************************)
RECURSIVE serializeMembers(_, _)
RECURSIVE serializeJson(_)
serializeJson(j) ==
  CASE j.t = "str" -> "\"" \o j.s \o "\""
    [] j.t = "num" -> StringOfInt(j.n)
    [] j.t = "obj" -> "{" \o serializeMembers(j.m, TRUE) \o "}"
    [] j.t = "arr" -> "[" \o serializeMembers(j.m, FALSE) \o "]"
    [] OTHER -> j.s

serializeMembers(m, keyed) ==
  IF m = <<>> THEN ""
  ELSE (IF keyed THEN "\"" \o Head(m).k \o "\":" \o serializeJson(Head(m).v)
                 ELSE serializeJson(Head(m)))
       \o (IF Len(m) > 1 THEN "," ELSE "")
       \o serializeMembers(Tail(m), keyed)

\* ASCII codes 32..95 and 97..126 of the characters strings are made of
AsciiLow == " !\"#$%&'()*+,-./0123456789:;<=>?@ABCDEFGHIJKLMNOPQRSTUVWXYZ[\\]^_"

AsciiHigh == "abcdefghijklmnopqrstuvwxyz{|}~"

AsciiCodes ==
  [c \in {SubSeq(AsciiLow, i, i) : i \in 1..Len(AsciiLow)}
         \cup {SubSeq(AsciiHigh, i, i) : i \in 1..Len(AsciiHigh)} |->
     IF \E i \in 1..Len(AsciiLow) : SubSeq(AsciiLow, i, i) = c
       THEN 31 + (CHOOSE i \in 1..Len(AsciiLow) : SubSeq(AsciiLow, i, i) = c)
       ELSE 96 + (CHOOSE i \in 1..Len(AsciiHigh) : SubSeq(AsciiHigh, i, i) = c)]

\* the value of a char
charCode(c) == AsciiCodes[c]

\* a uint32_t as its two 16-bit halves <<high, low>>
HALF_WORD == 65536

\* hash * 31 + c kept in 16 bits: the carry into the high half is dropped
hashStepNoCarry(hash, c) ==
  LET low == hash[2] * 31 + c
  IN <<(hash[1] * 31) % HALF_WORD, low % HALF_WORD>>

\* hash * 31 + c in uint32_t arithmetic (wraps modulo 2^32)
hashStep(hash, c) ==
  LET low == hash[2] * 31 + c
  IN <<(hash[1] * 31 + (low \div HALF_WORD)) % HALF_WORD, low % HALF_WORD>>

RECURSIVE hashRange(_, _, _, _)
\* for (char c : configStr) hash = hash * 31 + c over the characters first..last
\* of s; the steps are taken in order, first half then second half (the test
\* on half makes the running hash a value before the next step)
hashRange(s, first, last, hash) ==
  IF first > last THEN hash
  ELSE IF first = last THEN hashStep(hash, charCode(SubSeq(s, first, first)))
  ELSE LET half == hashRange(s, first, (first + last) \div 2, hash)
       IN IF half[1] < HALF_WORD
            THEN hashRange(s, ((first + last) \div 2) + 1, last, half)
            ELSE half

\* the loop from character i of s on
hashFold(s, i, hash) == hashRange(s, i, Len(s), hash)

HexDigits == "0123456789abcdef"

RECURSIVE hexDigitsOf(_)
hexDigitsOf(n) ==
  IF n < 16 THEN SubSeq(HexDigits, n + 1, n + 1)
  ELSE hexDigitsOf(n \div 16) \o SubSeq(HexDigits, (n % 16) + 1, (n % 16) + 1)

\* String(uint32_t, HEX): lower-case hexadecimal without leading zeros
StringOfHex(hash) ==
  IF hash[1] = 0 THEN hexDigitsOf(hash[2])
  ELSE hexDigitsOf(hash[1])
       \o SubSeq("000", 1, 4 - Len(hexDigitsOf(hash[2])))
       \o hexDigitsOf(hash[2])

RECURSIVE hashButtons(_, _, _)
\* the loop over the buttons: name, action code and actionData of each are
\* appended to configStr in this order (folding the pieces one after the
\* other is folding their concatenation)
hashButtons(bc, i, hash) ==
  IF i >= NUM_BUTTONS THEN hash
  ELSE LET next == hashFold(serializeJson(bc[i].actionData), 1,
                     hashFold(StringOfInt(bc[i].action), 1,
                       hashFold(bc[i].name, 1, hash)))
       IN IF next[1] < HALF_WORD THEN hashButtons(bc, i + 1, next) ELSE next

\* generateConfigHash(): the fold over deviceName, brightness, ssid and the
\* buttons, rendered in hexadecimal
generateConfigHash(c) ==
  StringOfHex(hashButtons(c.buttonConfigs, 0,
                hashFold(c.networkConfig.ssid, 1,
                  hashFold(StringOfInt(c.deviceConfig.brightness), 1,
                    hashFold(c.deviceConfig.deviceName, 1, <<0, 0>>)))))

(***************************************************************************)
(* The device as a record d of its globals, and the handlers as functions  *)
(* from the state before to the state after:                               *)
(*   config       buttonConfigs, networkConfig, deviceConfig               *)
(*   preferences  the "patcom" namespace in flash: <<>> before the first   *)
(*                save, else <<the saved configuration>>                   *)
(*   serverClient whether the web server holds a connected HTTP client     *)
(*   power        "on", "restart" (ESP.restart called), "panic" (a null    *)
(*                pointer was read: the ESP32 raises LoadProhibited and    *)
(*                resets)                                                  *)
(*   serialOut, serverOut, udpOut, httpRequests: what the handler wrote to *)
(*                Serial, to the HTTP client, to the UDP peer, and the     *)
(*                HTTPClient requests it issued                            *)
(***************************************************************************)
SerialLine(tag, type, success, message) ==
  [tag |-> tag, type |-> type, success |-> success, message |-> message]

\* Serial.println of a line without a kind tag
println(d, text) ==
  [d EXCEPT !.serialOut = Append(@, SerialLine("", "", TRUE, text))]

\* sendJsonResponse(type, message, success)
sendJsonResponse(d, type, message, success) ==
  [d EXCEPT !.serialOut = Append(@, SerialLine("RESPONSE", type, success, message))]

\* sendDeviceInfo()
sendDeviceInfo(d) ==
  [d EXCEPT !.serialOut =
     Append(@, SerialLine("DEVICE_INFO", "device_info", TRUE,
                          d.config.deviceConfig.deviceName))]

\* server.send(code, "application/json", body)
serverSend(d, code, status) ==
  [d EXCEPT !.serverOut = Append(@, [code |-> code, status |-> status])]

\* Preferences: the namespace is a function from its keys to their values,
\* <<>> while nothing has been written
get(prefs, key, default) == IF key \in DOMAIN prefs THEN prefs[key] ELSE default

\* a run of put calls, each a pair <<key, value>>: a key holds the value of
\* the last put that names it
putAll(prefs, pairs) ==
  LET written == {pairs[i][1] : i \in DOMAIN pairs}
      lastPut(key) == CHOOSE i \in DOMAIN pairs :
                        /\ pairs[i][1] = key
                        /\ \A j \in DOMAIN pairs : j > i => pairs[j][1] # key
  IN [key \in (DOMAIN prefs) \cup written |->
        IF key \in written THEN pairs[lastPut(key)][2] ELSE prefs[key]]

put(prefs, key, value) == putAll(prefs, << <<key, value>> >>)

\* "apiKey" + String(i) + "_" and "btn" + String(i) + "_"
apiKeyPrefix(i) == "apiKey" \o StringOfInt(i) \o "_"
buttonPrefix(i) == "btn" \o StringOfInt(i) \o "_"

RECURSIVE apiKeyPuts(_, _, _)
\* saveConfiguration, lines 436-445: the active entries are written under
\* consecutive indexes, then their count
apiKeyPuts(apiKeys, i, activeApiKeyCount) ==
  IF i >= MAX_API_KEYS THEN << <<"apiKeyCount", activeApiKeyCount>> >>
  ELSE IF apiKeys[i].active
    THEN << <<apiKeyPrefix(activeApiKeyCount) \o "name", apiKeys[i].name>>,
            <<apiKeyPrefix(activeApiKeyCount) \o "value", apiKeys[i].value>> >>
         \o apiKeyPuts(apiKeys, i + 1, activeApiKeyCount + 1)
    ELSE apiKeyPuts(apiKeys, i + 1, activeApiKeyCount)

RECURSIVE buttonPuts(_, _)
\* saveConfiguration, lines 460-466
buttonPuts(buttonConfigs, i) ==
  IF i >= NUM_BUTTONS THEN <<>>
  ELSE << <<buttonPrefix(i) \o "name", buttonConfigs[i].name>>,
          <<buttonPrefix(i) \o "action", buttonConfigs[i].action>>,
          <<buttonPrefix(i) \o "data", buttonConfigs[i].actionData>>,
          <<buttonPrefix(i) \o "enabled", buttonConfigs[i].enabled>> >>
       \o buttonPuts(buttonConfigs, i + 1)

\* saveConfiguration, lines 426-433: the device keys
putDevice(prefs, device) ==
  putAll(prefs,
         << <<"deviceName", device.deviceName>>,
            <<"deviceId", device.deviceId>>,
            <<"deviceType", device.deviceType>>,
            <<"brightness", device.brightness>>,
            <<"discoverable", device.discoverable>>,
            <<"heartbeat", device.heartbeatInterval>>,
            <<"autoSync", device.autoSync>>,
            <<"configServer", device.configServerUrl>> >>)

\* the network keys without the WiFi password
putNetworkNoPassword(prefs, net) ==
  putAll(prefs,
         << <<"ssid", net.ssid>>,
            <<"staticIP", net.staticIP>>,
            <<"ip", net.ip>>,
            <<"subnet", net.subnet>>,
            <<"gateway", net.gateway>>,
            <<"dns", net.dns>> >>)

\* saveConfiguration, lines 451-457: the network keys
putNetwork(prefs, net) ==
  putAll(prefs,
         << <<"ssid", net.ssid>>,
            <<"password", net.password>>,
            <<"staticIP", net.staticIP>>,
            <<"ip", net.ip>>,
            <<"subnet", net.subnet>>,
            <<"gateway", net.gateway>>,
            <<"dns", net.dns>> >>)

\* saveConfiguration, lines 423-468: what the namespace holds afterwards
savedPreferences(prefs, c) ==
  LET p1 == putDevice(prefs, c.deviceConfig)
      p2 == putAll(p1, apiKeyPuts(c.apiKeys, 0, 0)
                       \o << <<"customConfig", c.customConfig>> >>)
      p3 == putNetwork(p2, c.networkConfig)
  IN putAll(p3, buttonPuts(c.buttonConfigs, 0))


\* saveConfiguration(): every key is written, then the hash is cached
saveConfiguration(d) ==
  println([d EXCEPT !.preferences = savedPreferences(d.preferences, d.config),
                    !.lastConfigHash = generateConfigHash(d.config)],
          "Configuration saved to flash")

\* struct DeviceConfig begins with char deviceName[32]; char deviceId[16];
\* deviceType follows at offset 48
sizeofDeviceName == 32
sizeofDeviceId == 16

\* strcpy(deviceConfig.deviceName, s): strcpy copies up to the terminator
\* whatever the size of the destination, so the characters of s from the 33rd
\* on and the terminator land in deviceId, which follows deviceName in the
\* struct; deviceName then has no terminator of its own and reads through
\* deviceId.  Names that would reach deviceType (48 characters or more) are
\* outside the model.
strcpyDeviceName(device, s) ==
  CASE Len(s) < sizeofDeviceName -> [device EXCEPT !.deviceName = s]
    [] Len(s) >= sizeofDeviceName /\ Len(s) < sizeofDeviceName + sizeofDeviceId ->
         [device EXCEPT !.deviceName = s,
                        !.deviceId = SubSeq(s, sizeofDeviceName + 1, Len(s))]

\* strcpy(deviceConfig.deviceId, s): a deviceName that fills its 32 bytes
\* reads on through the new deviceId
strcpyDeviceId(device, s) ==
  CASE Len(s) < sizeofDeviceId ->
         [device EXCEPT !.deviceId = s,
                        !.deviceName = IF Len(@) >= sizeofDeviceName
                                         THEN SubSeq(@, 1, sizeofDeviceName) \o s
                                         ELSE @]

\* loadConfiguration, lines 371-379: the device fields in the order they are
\* written, into globals that are zero after reset
loadDeviceConfig(stored) ==
  LET zeroed == [deviceName |-> "", deviceId |-> ""]
      named == strcpyDeviceName(zeroed,
                 get(stored, "deviceName", DefaultDeviceConfig.deviceName))
      identified == strcpyDeviceId(named, get(stored, "deviceId", EfuseDeviceId))
  IN [deviceName |-> identified.deviceName,
      deviceId |-> identified.deviceId,
      deviceType |-> get(stored, "deviceType", DEVICE_TYPE_BUTTON_MATRIX),
      brightness |-> get(stored, "brightness", DefaultDeviceConfig.brightness),
      discoverable |-> get(stored, "discoverable", DefaultDeviceConfig.discoverable),
      heartbeatInterval |-> get(stored, "heartbeat", DefaultDeviceConfig.heartbeatInterval),
      firmwareVersion |-> VERSION,
      autoSync |-> get(stored, "autoSync", DefaultDeviceConfig.autoSync),
      configServerUrl |-> get(stored, "configServer", DefaultDeviceConfig.configServerUrl)]

\* loadConfiguration, lines 383-395: every entry is cleared, then the stored
\* ones are read back; an entry is active when its name is not empty
loadApiKeys(stored) ==
  LET apiKeyCount == get(stored, "apiKeyCount", 0)
  IN [i \in 0..(MAX_API_KEYS - 1) |->
        IF i < apiKeyCount
          THEN [name |-> get(stored, apiKeyPrefix(i) \o "name", ""),
                value |-> get(stored, apiKeyPrefix(i) \o "value", ""),
                active |-> Len(get(stored, apiKeyPrefix(i) \o "name", "")) > 0]
          ELSE EmptyApiKey]

\* loadConfiguration(): stored keys, defaults for missing ones; the firmware
\* version is always the running firmware's
loadConfiguration(stored) ==
  [deviceConfig |-> loadDeviceConfig(stored),
   apiKeys |-> loadApiKeys(stored),
   customConfig |-> get(stored, "customConfig", "{}"),
   networkConfig |->
     [ssid |-> get(stored, "ssid", DefaultNetworkConfig.ssid),
      password |-> get(stored, "password", DefaultNetworkConfig.password),
      staticIP |-> get(stored, "staticIP", DefaultNetworkConfig.staticIP),
      ip |-> get(stored, "ip", DefaultNetworkConfig.ip),
      subnet |-> get(stored, "subnet", DefaultNetworkConfig.subnet),
      gateway |-> get(stored, "gateway", DefaultNetworkConfig.gateway),
      dns |-> get(stored, "dns", DefaultNetworkConfig.dns)],
   buttonConfigs |->
     [i \in ButtonIds |->
        [name |-> get(stored, buttonPrefix(i) \o "name", DefaultButtonConfig(i).name),
         action |-> get(stored, buttonPrefix(i) \o "action", ACTION_NONE),
         actionData |-> get(stored, buttonPrefix(i) \o "data",
                            DefaultButtonConfig(i).actionData),
         enabled |-> get(stored, buttonPrefix(i) \o "enabled", TRUE)]]]

\* strcpy(dst, variant): a variant that is no string converts to a null
\* pointer, and reading it resets the device
strcpyFrom(d, j) == IF isString(j) THEN d ELSE [d EXCEPT !.power = "panic"]

\* handleConfigUpload, lines 977-988: the device section
uploadDevice(d, doc) ==
  IF ~containsKey(doc, "device") THEN d
  ELSE LET dev == member(doc, "device")
           d1 == IF containsKey(dev, "name")
                   THEN strcpyFrom([d EXCEPT !.config.deviceConfig =
                                       strcpyDeviceName(@, asStringOr(member(dev, "name"),
                                                                      @.deviceName))],
                                   member(dev, "name"))
                   ELSE d
           d2 == IF containsKey(dev, "brightness")
                   THEN [d1 EXCEPT !.config.deviceConfig.brightness =
                           asInt(member(dev, "brightness"))]
                   ELSE d1
       IN IF containsKey(dev, "discoverable")
            THEN [d2 EXCEPT !.config.deviceConfig.discoverable =
                    asBool(member(dev, "discoverable"))]
            ELSE d2

\* one strcpy(networkConfig.<field>, doc["network"][key]) guarded by containsKey
uploadNetworkString(d, net, key, field) ==
  IF containsKey(net, key)
    THEN strcpyFrom([d EXCEPT !.config.networkConfig[field] =
                        asStringOr(member(net, key), @)],
                    member(net, key))
    ELSE d

\* handleConfigUpload, lines 990-1010: the network section
uploadNetwork(d, doc) ==
  IF ~containsKey(doc, "network") THEN d
  ELSE LET net == member(doc, "network")
           d1 == uploadNetworkString(d, net, "ssid", "ssid")
           d2 == uploadNetworkString(d1, net, "password", "password")
           d3 == IF containsKey(net, "staticIP")
                   THEN [d2 EXCEPT !.config.networkConfig.staticIP =
                           asBool(member(net, "staticIP"))]
                   ELSE d2
           d4 == uploadNetworkString(d3, net, "ip", "ip")
           d5 == uploadNetworkString(d4, net, "subnet", "subnet")
       IN uploadNetworkString(d5, net, "gateway", "gateway")

\* struct ButtonConfig is char name[32]; ActionType action;
\* char actionData[256]; bool enabled; the next element of buttonConfigs[]
\* begins 260 bytes after the start of actionData
sizeofName == 32
sizeofActionData == 256
nextButtonConfig == 260

\* what deserializeJson makes of the characters held in actionData
deserialized(text, parsed) == IF text = serializeJson(parsed) THEN parsed ELSE JBad(text)

\* strcpy(buttonConfigs[id].actionData, actionData.c_str()): strcpy copies up
\* to the terminator whatever the size of the destination.  256 characters
\* put the terminator on enabled; more put characters there (a byte that is
\* not zero reads as true) and on the padding behind it; from 260 on the
\* copy continues into the name of slot id + 1.  Texts that would reach
\* beyond that name, or beyond the last slot, are outside the model.
strcpyActionData(d, id, parsed) ==
  LET actionData == serializeJson(parsed)
      stored == [d EXCEPT !.config.buttonConfigs[id].actionData = parsed]
  IN CASE Len(actionData) < sizeofActionData -> stored
       [] Len(actionData) = sizeofActionData ->
            [stored EXCEPT !.config.buttonConfigs[id].enabled = FALSE]
       [] Len(actionData) > sizeofActionData /\ Len(actionData) < nextButtonConfig ->
            [stored EXCEPT !.config.buttonConfigs[id].enabled = TRUE]
       [] /\ Len(actionData) >= nextButtonConfig
          /\ Len(actionData) < nextButtonConfig + sizeofName
          /\ id + 1 < NUM_BUTTONS ->
            [stored EXCEPT !.config.buttonConfigs[id].enabled = TRUE,
                           !.config.buttonConfigs[id + 1].name =
                              SubSeq(actionData, nextButtonConfig + 1, Len(actionData))]

\* strcpy(buttonConfigs[id].name, s) for a name that fits: an actionData of
\* slot id - 1 that runs into this name reads on through the new one
strcpyName(d, id, s) ==
  LET before == IF id > 0
                  THEN serializeJson(d.config.buttonConfigs[id - 1].actionData) ELSE ""
      named == [d EXCEPT !.config.buttonConfigs[id].name = s]
  IN CASE Len(s) < sizeofName /\ Len(before) < nextButtonConfig -> named
       [] Len(s) < sizeofName /\ Len(before) >= nextButtonConfig ->
            [named EXCEPT !.config.buttonConfigs[id - 1].actionData =
                            deserialized(SubSeq(before, 1, nextButtonConfig) \o s, @)]

\* buttonConfigs[id].enabled = b: an actionData that runs over enabled ends
\* there when the byte becomes zero; a byte of one inside such a text is
\* outside the model
assignEnabled(d, id, b) ==
  LET actionData == serializeJson(d.config.buttonConfigs[id].actionData)
      assigned == [d EXCEPT !.config.buttonConfigs[id].enabled = b]
  IN CASE Len(actionData) < sizeofActionData -> assigned
       [] Len(actionData) >= sizeofActionData /\ ~b ->
            [assigned EXCEPT !.config.buttonConfigs[id].actionData =
                               deserialized(SubSeq(actionData, 1, sizeofActionData), @)]

\* handleConfigUpload, lines 1016-1028: one element of the buttons array
uploadButton(d, button) ==
  LET id == asInt(member(button, "id"))
  IN IF id >= 0 /\ id < NUM_BUTTONS
       THEN LET named == strcpyName(d, id, asStringOr(member(button, "name"),
                                                      "Button " \o StringOfInt(id)))
                acted == [named EXCEPT !.config.buttonConfigs[id].action =
                                         asIntOr(member(button, "action"), ACTION_NONE)]
                enabled == asBoolOr(member(button, "enabled"), TRUE)
            IN IF containsKey(button, "config")
                 THEN strcpyActionData(
                        [acted EXCEPT !.config.buttonConfigs[id].enabled = enabled],
                        id, member(button, "config"))
                 ELSE assignEnabled(acted, id, enabled)
       ELSE d

RECURSIVE uploadButtonsFrom(_, _, _)
uploadButtonsFrom(d, buttons, i) ==
  IF i > Len(buttons) THEN d
  ELSE uploadButtonsFrom(uploadButton(d, buttons[i]), buttons, i + 1)

\* the buttons section with the slots put back to their defaults when the
\* document has no buttons
uploadButtonsOrDefaults(d, doc) ==
  IF containsKey(doc, "buttons") /\ member(doc, "buttons").t = "arr"
    THEN uploadButtonsFrom(d, member(doc, "buttons").m, 1)
    ELSE [d EXCEPT !.config.buttonConfigs = DefaultConfig.buttonConfigs]

\* handleConfigUpload, lines 1012-1030: the buttons section
uploadButtons(d, doc) ==
  IF containsKey(doc, "buttons") /\ member(doc, "buttons").t = "arr"
    THEN uploadButtonsFrom(d, member(doc, "buttons").m, 1)
    ELSE d

\* handleConfigUpload, lines 1043-1048: delay(3000); ESP.restart()
restartIfNetworkChanged(d, doc) ==
  IF containsKey(doc, "network")
    THEN [println(d, "Network configuration changed - restarting in 3 seconds...")
            EXCEPT !.power = "restart"]
    ELSE d

\* handleConfigUpload, lines 1032-1048: the configuration is saved, the
\* caller is answered, and the device restarts if the network section came
uploadSaved(d, configJson) ==
  LET d2 == println(saveConfiguration(d), "Configuration updated successfully")
      d3 == IF d.serverClient
              THEN serverSend(d2, 200, "ok")
              ELSE sendJsonResponse(d2, "config_upload",
                     "Configuration updated successfully", TRUE)
  IN restartIfNetworkChanged(d3, configJson)

\* handleConfigUpload(String configJson)
handleConfigUpload(d, configJson) ==
  IF ~wellFormed(configJson)
    THEN LET d1 == println(d, "Failed to parse configuration JSON")
         IN IF d.serverClient
              THEN serverSend(d1, 400, "error")
              ELSE sendJsonResponse(d1, "config_upload", "Invalid JSON", FALSE)
    ELSE LET d1 == uploadButtons(uploadNetwork(uploadDevice(d, configJson), configJson),
                                 configJson)
         IN IF d1.power = "panic" THEN [d1 EXCEPT !.serialOut = d.serialOut]
            ELSE uploadSaved(d1, configJson)

(***************************************************************************)
(* Action dispatch.  httpCode is what HTTPClient returns for the request:  *)
(* the response's status, or a negative error code.                        *)
(***************************************************************************)
\* a request handed to HTTPClient, and what GET/POST/PUT returned for it
HttpRequest(kind, button, url, code) ==
  [kind |-> kind, button |-> button, url |-> url, code |-> code]

\* lines 693-707 of executeHttpAction
httpResult(d, buttonIndex, httpCode) ==
  IF httpCode > 0 /\ httpCode = 200
    THEN [d EXCEPT !.ledStates[buttonIndex] = TRUE]
    ELSE d

\* lines 807-821 of executeWebhookAction
webhookResult(d, buttonIndex, httpCode) ==
  IF httpCode > 0 /\ httpCode >= 200 /\ httpCode < 300
    THEN [d EXCEPT !.ledStates[buttonIndex] = TRUE]
    ELSE d

\* executeHttpAction without the test for an empty url
executeHttpActionAnyUrl(d, buttonIndex, httpCode) ==
  LET config == d.config.buttonConfigs[buttonIndex].actionData
      url == member(config, "url")
  IN IF ~d.wifiConnected
       THEN println(d, "WiFi not connected - cannot execute HTTP action")
     ELSE IF ~isString(url)
       THEN [d EXCEPT !.power = "panic"]
     ELSE httpResult([d EXCEPT !.httpRequests =
                         Append(@, HttpRequest("http", buttonIndex, url.s, httpCode))],
                     buttonIndex, httpCode)

\* executeHttpAction(buttonIndex, actionData)
executeHttpAction(d, buttonIndex, httpCode) ==
  LET config == d.config.buttonConfigs[buttonIndex].actionData
      url == member(config, "url")
  IN IF ~d.wifiConnected
       THEN println(d, "WiFi not connected - cannot execute HTTP action")
     ELSE IF ~isString(url)
       THEN [d EXCEPT !.power = "panic"]
     ELSE IF Len(url.s) = 0
       THEN println(d, "No URL configured for HTTP action")
     ELSE httpResult([d EXCEPT !.httpRequests =
                         Append(@, HttpRequest("http", buttonIndex, url.s, httpCode))],
                     buttonIndex, httpCode)

\* executeWebhookAction(buttonIndex, actionData)
executeWebhookAction(d, buttonIndex, httpCode) ==
  LET config == d.config.buttonConfigs[buttonIndex].actionData
      url == member(config, "url")
      secret == member(config, "secret")
  IN IF ~d.wifiConnected
       THEN println(d, "WiFi not connected - cannot execute webhook")
     ELSE IF ~isString(url)
       THEN [d EXCEPT !.power = "panic"]
     ELSE IF Len(url.s) = 0
       THEN println(d, "No webhook URL configured")
     ELSE IF ~isString(secret)
       THEN [d EXCEPT !.power = "panic"]
     ELSE webhookResult([d EXCEPT !.httpRequests =
                            Append(@, HttpRequest("webhook", buttonIndex, url.s, httpCode))],
                        buttonIndex, httpCode)

\* executeSerialAction, executeScriptAction, executeOscAction: strlen of a
\* member that must be a string; executeMidiAction reads integers only
executeLocalAction(d, buttonIndex, needed) ==
  LET config == d.config.buttonConfigs[buttonIndex].actionData
  IN IF \E i \in 1..Len(needed) : ~isString(member(config, needed[i]))
       THEN [d EXCEPT !.power = "panic"]
       ELSE d

\* executeAction(buttonIndex)
executeAction(d, buttonIndex, httpCode) ==
  LET action == d.config.buttonConfigs[buttonIndex].action
  IN CASE action = ACTION_HTTP -> executeHttpAction(d, buttonIndex, httpCode)
       [] action = ACTION_SERIAL -> executeLocalAction(d, buttonIndex, <<"command">>)
       [] action = ACTION_MIDI -> d
       [] action = ACTION_SCRIPT -> executeLocalAction(d, buttonIndex, <<"code">>)
       [] action = ACTION_OSC -> executeLocalAction(d, buttonIndex, <<"address", "host">>)
       [] action = ACTION_WEBHOOK -> executeWebhookAction(d, buttonIndex, httpCode)
       [] OTHER -> println(d, "No action configured for button "
                                \o StringOfInt(buttonIndex))

\* updateActivity()
updateActivity(d) ==
  LET d1 == [d EXCEPT !.lastActivity = d.now]
  IN IF d.lowPowerMode
       THEN println([d1 EXCEPT !.lowPowerMode = FALSE], "Exiting low power mode")
       ELSE d1

\* handleButtonPress without the test of the enabled flag
handleButtonPressAlways(d, buttonIndex, httpCode) ==
  IF buttonIndex < 0 \/ buttonIndex >= NUM_BUTTONS THEN d
  ELSE LET d1 == updateActivity(
                   println(d, "Button " \o StringOfInt(buttonIndex) \o " pressed"))
           d2 == [d1 EXCEPT !.ledStates[buttonIndex] = ~@]
           d3 == executeAction(d2, buttonIndex, httpCode)
       IN IF d3.power = "panic" THEN d3
          ELSE [d3 EXCEPT !.serialOut =
                  Append(@, SerialLine("EVENT", "button_press", TRUE,
                                       StringOfInt(buttonIndex)))]

\* handleButtonPress(buttonIndex)
handleButtonPress(d, buttonIndex, httpCode) ==
  IF buttonIndex < 0 \/ buttonIndex >= NUM_BUTTONS THEN d
  ELSE LET d1 == updateActivity(
                   println(d, "Button " \o StringOfInt(buttonIndex) \o " pressed"))
           d2 == [d1 EXCEPT !.ledStates[buttonIndex] = ~@]
           d3 == IF d2.config.buttonConfigs[buttonIndex].enabled
                   THEN executeAction(d2, buttonIndex, httpCode)
                   ELSE d2
       IN IF d3.power = "panic" THEN d3
          ELSE [d3 EXCEPT !.serialOut =
                  Append(@, SerialLine("EVENT", "button_press", TRUE,
                                       StringOfInt(buttonIndex)))]

(***************************************************************************)
(* Serial control channel.  A received line is its text up to the JSON     *)
(* payload, and the payload (JBad("") when the line carries none).         *)
(***************************************************************************)
NoPayload == JBad("")

SerialCommand(text, payload) == [text |-> text, payload |-> payload]

\* the command equals a word: the whole line is that word
commandIs(command, word) == command.text = word /\ command.payload = NoPayload

\* a bool as ArduinoJson writes it
JBool(b) == JLit(IF b THEN "true" ELSE "false")

\* lines 879-898 of processSerialCommand: the document of the CONFIG reply
configDoc(d) ==
  JObj(<<KV("device", JObj(<<KV("name", JStr(d.config.deviceConfig.deviceName)),
                             KV("brightness", JNum(d.config.deviceConfig.brightness))>>)),
         KV("network", JObj(<<KV("ssid", JStr(d.config.networkConfig.ssid)),
                              KV("connected", JBool(d.wifiConnected))>>)),
         KV("buttons", JArr([k \in 1..NUM_BUTTONS |->
            JObj(<<KV("id", JNum(k - 1)),
                   KV("name", JStr(d.config.buttonConfigs[k - 1].name)),
                   KV("action", JNum(d.config.buttonConfigs[k - 1].action)),
                   KV("enabled", JBool(d.config.buttonConfigs[k - 1].enabled))>>)]))>>)

\* lines 879-898 of processSerialCommand: the CONFIG reply
sendConfig(d) == sendJsonResponse(d, "config", serializeJson(configDoc(d)), TRUE)

\* lines 903-908 of processSerialCommand: TEST:<n>
testButton(d, command, httpCode) ==
  LET buttonIndex == toInt(substring(command.text, 5))
  IN IF buttonIndex >= 0 /\ buttonIndex < NUM_BUTTONS
       THEN LET d1 == handleButtonPress(d, buttonIndex, httpCode)
            IN IF d1.power = "panic" THEN d1
               ELSE sendJsonResponse(d1, "test",
                      "Button " \o StringOfInt(buttonIndex) \o " triggered", TRUE)
       ELSE d

\* lines 915-922 of processSerialCommand: what HELP prints
HelpLines ==
  << "=== PATCOM Commands ===",
     "STATUS     - Device information",
     "CONFIG     - Get configuration",
     "SET_CONFIG:<json> - Upload configuration",
     "TEST:<n>   - Test button n",
     "WIFI       - WiFi status",
     "BATTERY    - Battery voltage",
     "HELP       - This help" >>

RECURSIVE printlnAll(_, _, _)
printlnAll(d, lines, i) ==
  IF i > Len(lines) THEN d ELSE printlnAll(println(d, lines[i]), lines, i + 1)

\* processSerialCommand(command): command.toUpperCase() comes first and
\* upper-cases the whole line, the payload included
processSerialCommand(d, line, httpCode) ==
  LET command == SerialCommand(toUpperCase(line.text),
                               toUpperCaseJson(line.payload))
  IN CASE commandIs(command, "STATUS") -> sendDeviceInfo(d)
       [] commandIs(command, "CONFIG") -> sendConfig(d)
       [] startsWith(command.text, "SET_CONFIG:") ->
            handleConfigUpload(d, command.payload)
       [] startsWith(command.text, "TEST:") -> testButton(d, command, httpCode)
       [] commandIs(command, "WIFI") ->
            sendJsonResponse(d, "wifi",
              IF d.wifiConnected THEN "Connected" ELSE "Disconnected", TRUE)
       [] commandIs(command, "BATTERY") -> sendJsonResponse(d, "battery", "V", TRUE)
       [] commandIs(command, "HELP") -> printlnAll(d, HelpLines, 1)
       [] OTHER -> sendJsonResponse(d, "error", "Unknown command", FALSE)

(***************************************************************************)
(* UDP config service (port 12346)                                         *)
(***************************************************************************)
UdpReply(type, success, hash) ==
  [type |-> type, success |-> success, hash |-> hash, body |-> JNull]

\* packet.printf(response)
udpReply(d, type, success) ==
  [d EXCEPT !.udpOut = Append(@, UdpReply(type, success, generateConfigHash(d.config)))]

\* the network members with the password among them
configResponseNetworkWithPassword(d) ==
  JObj(<<KV("ssid", JStr(d.config.networkConfig.ssid)),
         KV("password", JStr(d.config.networkConfig.password)),
         KV("staticIP", JBool(d.config.networkConfig.staticIP)),
         KV("ip", JStr(d.config.networkConfig.ip))>>)

\* handleConfigRequest, lines 1151-1154: responseDoc["network"]
configResponseNetwork(d) ==
  JObj(<<KV("ssid", JStr(d.config.networkConfig.ssid)),
         KV("staticIP", JBool(d.config.networkConfig.staticIP)),
         KV("ip", JStr(d.config.networkConfig.ip))>>)

\* handleConfigRequest, lines 1138-1173: the config_response document after
\* its type, device_id and config_hash members
configResponseDoc(d) ==
  JObj(<<KV("device", JObj(<<KV("name", JStr(d.config.deviceConfig.deviceName)),
                             KV("type", JNum(d.config.deviceConfig.deviceType)),
                             KV("brightness", JNum(d.config.deviceConfig.brightness)),
                             KV("discoverable", JBool(d.config.deviceConfig.discoverable)),
                             KV("auto_sync", JBool(d.config.deviceConfig.autoSync))>>)),
         KV("network", configResponseNetwork(d)),
         KV("buttons", JArr([k \in 1..NUM_BUTTONS |->
            JObj(<<KV("id", JNum(k - 1)),
                   KV("name", JStr(d.config.buttonConfigs[k - 1].name)),
                   KV("action", JNum(d.config.buttonConfigs[k - 1].action)),
                   KV("enabled", JBool(d.config.buttonConfigs[k - 1].enabled)),
                   KV("config", d.config.buttonConfigs[k - 1].actionData)>>)]))>>)

\* the set_config branch with the reply built before the upload is applied
handleConfigRequestOldHash(d, request) ==
  LET requestType == IF wellFormed(request)
                       THEN asStringOr(member(request, "type"), "null")
                       ELSE "null"
  IN CASE requestType = "get_config" ->
            [d EXCEPT !.udpOut =
               Append(@, [UdpReply("config_response", TRUE, generateConfigHash(d.config))
                            EXCEPT !.body = configResponseDoc(d)])]
       [] requestType = "set_config" ->
            LET d1 == handleConfigUpload(d, request)
            IN IF d1.power # "on" THEN d1
               ELSE [d1 EXCEPT !.udpOut =
                       Append(@, UdpReply("config_update_response", TRUE,
                                          generateConfigHash(d.config)))]
       [] OTHER -> d

\* handleConfigRequest(packet)
handleConfigRequest(d, request) ==
  LET requestType == IF wellFormed(request)
                       THEN asStringOr(member(request, "type"), "null")
                       ELSE "null"
  IN CASE requestType = "get_config" ->
            [d EXCEPT !.udpOut =
               Append(@, [UdpReply("config_response", TRUE, generateConfigHash(d.config))
                            EXCEPT !.body = configResponseDoc(d)])]
       [] requestType = "set_config" ->
            LET d1 == handleConfigUpload(d, request)
            IN IF d1.power # "on" THEN d1
               ELSE udpReply(d1, "config_update_response", TRUE)
       [] OTHER -> d

(***************************************************************************)
(* UDP discovery service (port 12345)                                      *)
(***************************************************************************)
\* broadcastDiscovery(): the device_discovery announcement
broadcastDiscovery(d) ==
  IF ~d.wifiConnected \/ ~d.config.deviceConfig.discoverable THEN d
  ELSE println(udpReply(d, "device_discovery", TRUE), "Discovery broadcast sent")

\* handleDiscoveryRequest(packet)
handleDiscoveryRequest(d, request) ==
  IF wellFormed(request) /\ member(request, "type") = JStr("discover_devices")
    THEN println(udpReply(d, "device_response", TRUE), "Discovery response sent")
    ELSE d

(***************************************************************************)
(* State                                                                   *)
(***************************************************************************)
VARIABLES
  config,           \* buttonConfigs, networkConfig, deviceConfig
  preferences,      \* flash
  lastConfigHash,   \* String lastConfigHash
  ledStates,        \* bool ledStates[8]
  wifiConnected,    \* bool wifiConnected
  wifiConfig,       \* the static addresses WiFi.config was called with, if any
  lowPowerMode,     \* bool lowPowerMode
  lastActivity,     \* unsigned long lastActivity
  serverClient,     \* the web server holds a connected client
  power,            \* "on" | "restart" | "panic"
  serialOut,        \* lines written to Serial by the last handler
  serverOut,        \* HTTP replies sent by the last handler
  udpOut,           \* UDP replies sent by the last handler
  httpRequests,     \* HTTPClient requests issued by the last handler
  millis,           \* millis()
  buttonLine,       \* level of each button pin (INPUT_PULLUP: LOW = pressed)
  lastButtonPress,  \* unsigned long lastButtonPress[8]
  lastPowerCheck,   \* unsigned long lastPowerCheck
  lastDiscoveryBroadcast, \* loop()'s static unsigned long lastDiscoveryBroadcast
  lastConfigSync,   \* loop()'s static unsigned long lastConfigSync
  configServerHash, \* config server: the X-Config-Hash it last answered with 200
  tasks,            \* per task (loop(), the AsyncUDP callback): where it is in
                    \* handleConfigUpload, and with which document
  lastInput,        \* history: what the last step handled
  holds,            \* history: per button, the current hold of the line
  pollEvents,       \* history: per button, the polled press events so far
  discoveredDevices,\* coordinator: Map<deviceId, DiscoveredDevice>
  clock,            \* coordinator: Date.now()
  configSocketOut,  \* coordinator: datagrams the last call sent on the config socket
  discoverySocketOut, \* coordinator: datagrams the last call broadcast
  listed,           \* coordinator: what the last call returned
  received,         \* coordinator: the datagram the last step handled, if any
  outstanding,      \* coordinator: per device id, the set_config datagrams sent
                    \* and not yet answered by a config_update_response
  requests          \* coordinator: the getDeviceConfig calls: promise, listener, timer

deviceVars ==
  <<config, preferences, lastConfigHash, ledStates, wifiConnected, wifiConfig,
    lowPowerMode, lastActivity,
    serverClient, power, serialOut, serverOut, udpOut, httpRequests>>

loopVars ==
  <<millis, buttonLine, lastButtonPress, lastPowerCheck, lastDiscoveryBroadcast,
    lastConfigSync, configServerHash, tasks, holds, pollEvents>>

coordinatorVars ==
  <<discoveredDevices, clock, configSocketOut, discoverySocketOut, listed, received,
    outstanding, requests>>

vars == <<deviceVars, loopVars, lastInput, coordinatorVars>>

\* the device's globals as one record, outputs of the previous handler dropped;
\* now is what millis() returns while the handler runs
Device ==
  [config |-> config, preferences |-> preferences,
   lastConfigHash |-> lastConfigHash, ledStates |-> ledStates,
   wifiConnected |-> wifiConnected, wifiConfig |-> wifiConfig,
   lowPowerMode |-> lowPowerMode, lastActivity |-> lastActivity, now |-> millis,
   serverClient |-> serverClient,
   power |-> power, serialOut |-> <<>>, serverOut |-> <<>>, udpOut |-> <<>>,
   httpRequests |-> <<>>]

\* the handler's result becomes the next state
Becomes(d) ==
  /\ config' = d.config
  /\ preferences' = d.preferences
  /\ lastConfigHash' = d.lastConfigHash
  /\ ledStates' = d.ledStates
  /\ wifiConnected' = d.wifiConnected
  /\ wifiConfig' = d.wifiConfig
  /\ lowPowerMode' = d.lowPowerMode
  /\ lastActivity' = d.lastActivity
  /\ serverClient' = d.serverClient
  /\ power' = d.power
  /\ serialOut' = d.serialOut
  /\ serverOut' = d.serverOut
  /\ udpOut' = d.udpOut
  /\ httpRequests' = d.httpRequests

(***************************************************************************)
(* Inputs                                                                  *)
(***************************************************************************)
\* configuration documents a client may send
ConfigPayloads ==
  << JBad("{not valid json}"),
     JObj(<<KV("device", JObj(<<KV("name", JStr("Studio")),
                                KV("brightness", JNum(128))>>))>>),
     JObj(<<KV("device", JObj(<<KV("discoverable", JLit("false"))>>))>>),
     JObj(<<KV("network", JObj(<<KV("ssid", JStr("lab2")),
                                 KV("password", JStr("pw2")),
                                 KV("staticIP", JLit("true")),
                                 KV("ip", JStr("10.0.0.300")),
                                 KV("gateway", JStr("10.0.0.1"))>>))>>),
     JObj(<<KV("buttons", JArr(<<
            JObj(<<KV("id", JNum(3)), KV("name", JStr("Go")),
                   KV("action", JNum(ACTION_HTTP)),
                   KV("config", JObj(<<KV("url", JStr(""))>>))>>),
            JObj(<<KV("id", JNum(1)), KV("action", JNum(ACTION_WEBHOOK)),
                   KV("enabled", JLit("false")),
                   KV("config", JObj(<<KV("url", JStr("http://h/a")),
                                       KV("secret", JStr(""))>>))>>)>>))>>),
     JObj(<<KV("buttons", JArr(<<
            JObj(<<KV("id", JNum(3)), KV("action", JNum(ACTION_HTTP)),
                   KV("config", JObj(<<KV("url", JStr("http://h/b")),
                                       KV("method", JStr("GET"))>>))>>),
            JObj(<<KV("id", JNum(1)), KV("action", JNum(ACTION_WEBHOOK)),
                   KV("config", JObj(<<KV("url", JStr("")),
                                       KV("secret", JStr("s"))>>))>>)>>))>>),
     JObj(<<KV("buttons", JArr(<<
            JObj(<<KV("id", JNum(3)), KV("action", JNum(ACTION_HTTP)),
                   KV("config", JObj(<<KV("url", JStr("ftp://h/c"))>>))>>),
            JObj(<<KV("id", JNum(1)), KV("action", JNum(ACTION_WEBHOOK)),
                   KV("config", JObj(<<KV("url", JStr("h/d")),
                                       KV("secret", JStr(""))>>))>>)>>))>>),
     JObj(<<KV("buttons", JArr(<<
            JObj(<<KV("id", JNum(0)), KV("name", JStr("Bare")),
                   KV("action", JNum(ACTION_HTTP))>>)>>))>> ) >>

PayloadIds == 1..Len(ConfigPayloads)

\* the serial line SET_CONFIG:<payload>
SetConfigLine(i) == SerialCommand("SET_CONFIG:", ConfigPayloads[i])

\* the other serial lines a client may send
SerialWords ==
  << "STATUS", "config", "IDENTIFY", "RESET_WIFI", "WIFI", "BATTERY", "HELP" >>

\* the serial lines that trigger a button
TestWords == << "TEST:1", "TEST:3", "test:3", "TEST:8", "TEST:x" >>

\* the datagram {type: "set_config", device_id, ...payload}
SetConfigDatagram(i) ==
  IF ConfigPayloads[i].t # "obj" THEN ConfigPayloads[i]
  ELSE JObj(<<KV("type", JStr("set_config")), KV("device_id", JStr(EfuseDeviceId))>>
            \o ConfigPayloads[i].m)

\* what arrives on the discovery port: a coordinator's request, another
\* device's announcement, and a datagram that is not JSON
DiscoveryRequests ==
  << JObj(<<KV("type", JStr("discover_devices"))>>),
     JObj(<<KV("type", JStr("device_discovery"))>>),
     JBad("discover_devices") >>

GetConfigDatagram ==
  JObj(<<KV("type", JStr("get_config")), KV("device_id", JStr(EfuseDeviceId))>>)

\* what HTTPClient may return: 2xx, an error status, a transport error
HttpCodes == {200, 204, 404, -1}

\* the flash of a device: never written, or provisioned with WiFi credentials
InitialPreferences ==
  { <<>>,
    savedPreferences(<<>>, [DefaultConfig EXCEPT !.networkConfig.ssid = "lab",
                                                 !.networkConfig.password = "wpa-key"]) }

Input(channel, index) == [channel |-> channel, index |-> index]

(***************************************************************************)
(* setup(): the state the loop starts from                                 *)
(***************************************************************************)
SETUP_TIME == 1300

\* connectWiFi(): without credentials the device does not try; otherwise the
\* access point decides
connectWiFiOutcomes(c) == IF Len(c.networkConfig.ssid) = 0 THEN {FALSE} ELSE BOOLEAN

\* isValidIP(ip): IPAddress::fromString, four decimal octets of at most 255
\* separated by dots
RECURSIVE fromStringFrom(_, _, _, _)
fromStringFrom(s, i, acc, dots) ==
  IF i > Len(s) THEN dots = 3
  ELSE LET c == SubSeq(s, i, i)
       IN IF isDigit(c)
            THEN LET next == acc * 10 + digitValue(c)
                 IN IF next > 255 THEN FALSE ELSE fromStringFrom(s, i + 1, next, dots)
          ELSE IF c = "."
            THEN IF dots = 3 THEN FALSE ELSE fromStringFrom(s, i + 1, 0, dots + 1)
          ELSE FALSE

isValidIP(ip) == fromStringFrom(ip, 1, 0, 0)

\* isValidUrl(url)
isValidUrl(url) == startsWith(url, "http://") \/ startsWith(url, "https://")

\* validateConfiguration, lines 1265-1276: the url of a button with a network
\* action; strlen of a url that is absent reads a null pointer
urlOf(button) == member(button.actionData, "url")

hasNetworkAction(button) == button.action = ACTION_HTTP \/ button.action = ACTION_WEBHOOK

RECURSIVE validateButtonsFrom(_, _)
validateButtonsFrom(d, i) ==
  IF i >= NUM_BUTTONS \/ d.power # "on" THEN d
  ELSE LET button == d.config.buttonConfigs[i]
       IN IF ~hasNetworkAction(button) THEN validateButtonsFrom(d, i + 1)
          ELSE IF ~isString(urlOf(button)) THEN [d EXCEPT !.power = "panic"]
          ELSE IF Len(urlOf(button).s) > 0 /\ ~isValidUrl(urlOf(button).s)
            THEN validateButtonsFrom(
                   println(d, "ERROR: Invalid URL for button " \o StringOfInt(i)), i + 1)
          ELSE validateButtonsFrom(d, i + 1)

\* validateConfiguration(): hasErrors
hasErrors(c) ==
  \/ c.networkConfig.staticIP
       /\ (~isValidIP(c.networkConfig.ip) \/ ~isValidIP(c.networkConfig.gateway))
  \/ \E i \in ButtonIds :
       /\ hasNetworkAction(c.buttonConfigs[i])
       /\ isString(urlOf(c.buttonConfigs[i]))
       /\ Len(urlOf(c.buttonConfigs[i]).s) > 0
       /\ ~isValidUrl(urlOf(c.buttonConfigs[i]).s)

\* validateConfiguration(): it logs what it finds and changes nothing
validateConfiguration(d) ==
  LET net == d.config.networkConfig
      d1 == IF net.staticIP /\ ~isValidIP(net.ip)
              THEN println(d, "ERROR: Invalid static IP address") ELSE d
      d2 == IF net.staticIP /\ ~isValidIP(net.gateway)
              THEN println(d1, "ERROR: Invalid gateway address") ELSE d1
      d3 == validateButtonsFrom(d2, 0)
  IN IF d3.power # "on" THEN d3
     ELSE IF hasErrors(d.config)
       THEN println(d3, "Configuration validation failed - some features may not work")
     ELSE println(d3, "Configuration validation passed")

\* connectWiFi(): the static addresses are handed to WiFi.config as they are
connectWiFi(d, connected) ==
  LET net == d.config.networkConfig
  IN IF Len(net.ssid) = 0 THEN d
     ELSE [d EXCEPT
             !.wifiConfig = IF net.staticIP /\ Len(net.ip) > 0
                              THEN <<[ip |-> net.ip, gateway |-> net.gateway,
                                      subnet |-> net.subnet, dns |-> net.dns]>>
                              ELSE <<>>,
             !.wifiConnected = connected]

\* the device's globals when setup() returns
Booted(flash, connected) ==
  LET reset == [config |-> loadConfiguration(flash), preferences |-> flash,
                lastConfigHash |-> "", ledStates |-> [i \in ButtonIds |-> FALSE],
                wifiConnected |-> FALSE, wifiConfig |-> <<>>,
                lowPowerMode |-> FALSE, lastActivity |-> SETUP_TIME, now |-> SETUP_TIME,
                serverClient |-> FALSE,
                power |-> "on", serialOut |-> <<>>, serverOut |-> <<>>,
                udpOut |-> <<>>, httpRequests |-> <<>>]
      d1 == validateConfiguration(reset)
  IN IF d1.power # "on" THEN d1
     ELSE LET d2 == connectWiFi(d1, connected)
              d3 == IF d2.config.deviceConfig.discoverable /\ d2.wifiConnected
                      THEN broadcastDiscovery(d2) ELSE d2
          IN sendDeviceInfo(d3)

Is(d) ==
  /\ config = d.config
  /\ preferences = d.preferences
  /\ lastConfigHash = d.lastConfigHash
  /\ ledStates = d.ledStates
  /\ wifiConnected = d.wifiConnected
  /\ wifiConfig = d.wifiConfig
  /\ lowPowerMode = d.lowPowerMode
  /\ lastActivity = d.lastActivity
  /\ serverClient = d.serverClient
  /\ power = d.power
  /\ serialOut = d.serialOut
  /\ serverOut = d.serverOut
  /\ udpOut = d.udpOut
  /\ httpRequests = d.httpRequests

\* history of one button's line: when the current hold began and the press
\* events the loop emitted during it
NoHold == [start |-> -1, events |-> 0]

\* history of one button's press events: how many, and when the last one was
NoEvents == [count |-> 0, last |-> -1]

InitLoop ==
  /\ millis = SETUP_TIME
  /\ buttonLine = [i \in ButtonIds |-> "HIGH"]
  /\ lastButtonPress = [i \in ButtonIds |-> 0]
  /\ lastPowerCheck = SETUP_TIME
  /\ lastDiscoveryBroadcast = 0
  /\ lastConfigSync = 0
  /\ configServerHash = ""
  /\ tasks = [task \in {"loop", "udp"} |-> [pc |-> "idle", doc |-> NoPayload]]
  /\ holds = [i \in ButtonIds |-> NoHold]
  /\ pollEvents = [i \in ButtonIds |-> NoEvents]

InitCoordinator ==
  /\ discoveredDevices = <<>>
  /\ clock = 0
  /\ configSocketOut = <<>>
  /\ discoverySocketOut = <<>>
  /\ listed = <<>>
  /\ received = <<>>
  /\ outstanding = [id \in {"PATCOM-a", "PATCOM-b", "PATCOM-c"} |-> 0]
  /\ requests = <<>>

(***************************************************************************)
(* The device's control channels                                           *)
(***************************************************************************)
InitDevice ==
  /\ \E flash \in InitialPreferences :
       \E connected \in connectWiFiOutcomes(loadConfiguration(flash)) :
         Is(Booted(flash, connected))
  /\ lastInput = Input("boot", 0)
  /\ InitLoop
  /\ InitCoordinator

\* loop(): handleSerialCommands() reads the line SET_CONFIG:<payload>
serialSetConfig ==
  /\ power = "on"
  /\ \E i \in PayloadIds :
       /\ Becomes(processSerialCommand(Device, SetConfigLine(i), 200))
       /\ lastInput' = Input("serial SET_CONFIG", i)
  /\ UNCHANGED <<loopVars, coordinatorVars>>

\* loop(): handleSerialCommands() reads any other line
serialCommand ==
  /\ power = "on"
  /\ \E i \in 1..Len(SerialWords) :
       /\ Becomes(processSerialCommand(Device, SerialCommand(SerialWords[i], NoPayload),
                                       200))
       /\ lastInput' = Input("serial", i)
  /\ UNCHANGED <<loopVars, coordinatorVars>>

\* udpConfig.onPacket: a set_config datagram arrives (the service listens only
\* when setup() found WiFi connected)
udpSetConfig ==
  /\ power = "on"
  /\ wifiConnected
  /\ \E i \in PayloadIds :
       /\ Becomes(handleConfigRequest(Device, SetConfigDatagram(i)))
       /\ lastInput' = Input("udp set_config", i)
  /\ UNCHANGED <<loopVars, coordinatorVars>>

\* udpConfig.onPacket: a get_config datagram arrives
udpGetConfig ==
  /\ power = "on"
  /\ wifiConnected
  /\ Becomes(handleConfigRequest(Device, GetConfigDatagram))
  /\ lastInput' = Input("udp get_config", 0)
  /\ UNCHANGED <<loopVars, coordinatorVars>>

\* udpDiscovery.onPacket: a datagram arrives on the discovery port
udpDiscoveryRequest ==
  /\ power = "on"
  /\ wifiConnected
  /\ \E i \in 1..Len(DiscoveryRequests) :
       /\ Becomes(handleDiscoveryRequest(Device, DiscoveryRequests[i]))
       /\ lastInput' = Input("udp discovery", i)
  /\ UNCHANGED <<loopVars, coordinatorVars>>

\* loop(): the periodic discovery broadcast falls due (more than 30 s after
\* the last one)
loopBroadcast ==
  /\ power = "on"
  /\ config.deviceConfig.discoverable /\ wifiConnected /\ ~lowPowerMode
  /\ Becomes(broadcastDiscovery(Device))
  /\ lastInput' = Input("loop broadcast", 0)
  /\ UNCHANGED <<loopVars, coordinatorVars>>

\* server.handleClient(): POST /api/config; the client stays connected until
\* it closes
httpPostConfig ==
  /\ power = "on"
  /\ wifiConnected
  /\ \E i \in PayloadIds :
       /\ Becomes(handleConfigUpload([Device EXCEPT !.serverClient = TRUE],
                                     ConfigPayloads[i]))
       /\ lastInput' = Input("http POST", i)
  /\ UNCHANGED <<loopVars, coordinatorVars>>

\* server.handleClient(): a client connects and is kept as the current client
httpClientConnects ==
  /\ power = "on"
  /\ wifiConnected
  /\ ~serverClient
  /\ Becomes([Device EXCEPT !.serverClient = TRUE])
  /\ lastInput' = Input("http connect", 0)
  /\ UNCHANGED <<loopVars, coordinatorVars>>

\* server.handleClient(): the current client has closed
httpClientCloses ==
  /\ power = "on"
  /\ serverClient
  /\ Becomes([Device EXCEPT !.serverClient = FALSE])
  /\ lastInput' = Input("http close", 0)
  /\ UNCHANGED <<loopVars, coordinatorVars>>

\* setup() after ESP.restart() or a panic reset
setup ==
  /\ power # "on"
  /\ \E connected \in connectWiFiOutcomes(loadConfiguration(preferences)) :
       Becomes(Booted(preferences, connected))
  /\ lastInput' = Input("boot", 0)
  /\ millis' = SETUP_TIME
  /\ buttonLine' = buttonLine
  /\ lastButtonPress' = [i \in ButtonIds |-> 0]
  /\ lastPowerCheck' = SETUP_TIME
  /\ lastDiscoveryBroadcast' = 0
  /\ lastConfigSync' = 0
  /\ configServerHash' = configServerHash
  /\ tasks' = [task \in {"loop", "udp"} |-> [pc |-> "idle", doc |-> NoPayload]]
  /\ holds' = [i \in ButtonIds |-> NoHold]
  /\ pollEvents' = [i \in ButtonIds |-> NoEvents]
  /\ UNCHANGED coordinatorVars

NextDevice ==
  \/ serialSetConfig
  \/ serialCommand
  \/ udpSetConfig
  \/ udpGetConfig
  \/ udpDiscoveryRequest
  \/ loopBroadcast
  \/ httpPostConfig
  \/ httpClientConnects
  \/ httpClientCloses
  \/ setup

SpecDevice == InitDevice /\ [][NextDevice]_vars

(***************************************************************************)
(* The button polling loop (loop(), lines 293-302) on a device with the    *)
(* first-boot configuration.  Time advances between loop iterations by the *)
(* loop's own delay or by longer stretches; millis() stays far below 2^32. *)
(***************************************************************************)
LOOP_DELAY == 10

\* how long an iteration may take: delay(10), or blocked for longer
TickSteps == {LOOP_DELAY, BUTTON_DEBOUNCE - LOOP_DELAY, BUTTON_DEBOUNCE}

\* the model stops the clock after this many milliseconds of uptime
MaxUptime == 420

\* the buttons that are operated; the other lines stay HIGH
OperatedButtons == {0}

\* the debounce test with the boundary included
debouncedInclusive(now, last) == now - last >= BUTTON_DEBOUNCE

\* millis() - lastButtonPress[i] > BUTTON_DEBOUNCE
debounced(now, last) == now - last > BUTTON_DEBOUNCE

RECURSIVE loopButtonsFrom(_, _, _, _)
\* for (int i = 0; i < 8; i++): the device and the set of buttons whose
\* press was handled; a panic ends the loop
loopButtonsFrom(d, i, fired, httpCode) ==
  IF i >= NUM_BUTTONS \/ d.power # "on" THEN [d |-> d, fired |-> fired]
  ELSE IF buttonLine[i] = "LOW" /\ debounced(millis, lastButtonPress[i])
    THEN loopButtonsFrom(handleButtonPress(d, i, httpCode), i + 1, fired \cup {i},
                         httpCode)
    ELSE loopButtonsFrom(d, i + 1, fired, httpCode)

\* what a request of this iteration may return; without WiFi none is made
HttpOutcomes == IF wifiConnected THEN HttpCodes ELSE {-1}

InitButtons ==
  /\ Is(Booted(<<>>, FALSE))
  /\ lastInput = Input("boot", 0)
  /\ InitLoop
  /\ InitCoordinator

\* lastButtonPress[i] = millis() for the buttons whose press was handled, and
\* the histories of their events
Polled(fired) ==
  /\ lastButtonPress' =
       [i \in ButtonIds |-> IF i \in fired THEN millis ELSE lastButtonPress[i]]
  /\ pollEvents' =
       [i \in ButtonIds |->
          IF i \in fired
            THEN [count |-> pollEvents[i].count + 1, last |-> millis]
            ELSE pollEvents[i]]
  /\ holds' =
       [i \in ButtonIds |->
          IF i \in fired THEN [holds[i] EXCEPT !.events = @ + 1]
          ELSE holds[i]]

\* loop(): the button scan of one iteration
loopButtons ==
  /\ power = "on"
  /\ \E httpCode \in HttpOutcomes :
     LET after == loopButtonsFrom(Device, 0, {}, httpCode)
     IN Becomes(after.d) /\ Polled(after.fired)
  /\ lastInput' = Input("loop buttons", 0)
  /\ UNCHANGED <<millis, buttonLine, lastPowerCheck, lastDiscoveryBroadcast,
                 lastConfigSync, configServerHash, tasks, coordinatorVars>>

\* time passes
tick ==
  /\ \E dt \in TickSteps :
       /\ millis + dt <= SETUP_TIME + MaxUptime
       /\ millis' = millis + dt
  /\ lastInput' = Input("tick", 0)
  /\ UNCHANGED <<deviceVars, buttonLine, lastButtonPress, lastPowerCheck,
                 lastDiscoveryBroadcast, lastConfigSync, configServerHash, tasks,
                 holds, pollEvents, coordinatorVars>>

\* a button is pushed: its line goes LOW
pressButton(i) ==
  /\ buttonLine[i] = "HIGH"
  /\ buttonLine' = [buttonLine EXCEPT ![i] = "LOW"]
  /\ holds' = [holds EXCEPT ![i] = [start |-> millis, events |-> 0]]
  /\ lastInput' = Input("press", i)
  /\ UNCHANGED <<deviceVars, millis, lastButtonPress, lastPowerCheck,
                 lastDiscoveryBroadcast, lastConfigSync, configServerHash, tasks,
                 pollEvents, coordinatorVars>>

\* a button is let go: its line returns to HIGH
releaseButton(i) ==
  /\ buttonLine[i] = "LOW"
  /\ buttonLine' = [buttonLine EXCEPT ![i] = "HIGH"]
  /\ lastInput' = Input("release", i)
  /\ UNCHANGED <<deviceVars, millis, lastButtonPress, lastPowerCheck,
                 lastDiscoveryBroadcast, lastConfigSync, configServerHash, tasks,
                 holds, pollEvents, coordinatorVars>>

NextButtons ==
  \/ loopButtons
  \/ tick
  \/ \E i \in OperatedButtons : pressButton(i)
  \/ \E i \in OperatedButtons : releaseButton(i)

SpecButtons == InitButtons /\ [][NextButtons]_vars

(***************************************************************************)
(* The loop's timers (loop(), lines 316-333) over minutes of uptime on a   *)
(* provisioned device with a healthy battery: the model follows the        *)
(* iterations that are PowerSteps apart.                                   *)
(***************************************************************************)
POWER_CHECK_INTERVAL == 30000
SLEEP_TIMEOUT == 300000
LOW_POWER_TIMEOUT == 60000
DISCOVERY_INTERVAL == 30000

\* the time from one followed iteration to the next
PowerSteps == {20000}

\* the model stops the clock after this many milliseconds of uptime
MaxAwake == 350000

\* enterDeepSleep(): the configuration is saved and the chip sleeps until a
\* button or the wake timer resets it
enterDeepSleep(d) ==
  [println(saveConfiguration(d), "Entering deep sleep. Press any button to wake up.")
     EXCEPT !.power = "sleep"]

\* checkPowerManagement()
checkPowerManagement(d) ==
  LET inactiveTime == d.now - d.lastActivity
      d1 == IF ~d.lowPowerMode /\ inactiveTime > LOW_POWER_TIMEOUT
              THEN println([d EXCEPT !.lowPowerMode = TRUE], "Entering low power mode")
              ELSE d
  IN IF inactiveTime > SLEEP_TIMEOUT
       THEN enterDeepSleep(println(d1, "No activity. Entering deep sleep..."))
       ELSE d1

\* loop() without the test of lowPowerMode before the discovery broadcast
announceDueAnyMode(d) ==
  /\ d.power = "on"
  /\ d.config.deviceConfig.discoverable /\ d.wifiConnected
  /\ millis - lastDiscoveryBroadcast > DISCOVERY_INTERVAL

\* loop(), line 330: the condition of the periodic discovery broadcast
announceDue(d) ==
  /\ d.power = "on"
  /\ d.config.deviceConfig.discoverable /\ d.wifiConnected /\ ~d.lowPowerMode
  /\ millis - lastDiscoveryBroadcast > DISCOVERY_INTERVAL

\* the POST of syncConfigWithServer and the status the server answers with
SyncRequest(url, hash, code) ==
  [kind |-> "sync", button |-> -1, url |-> url, hash |-> hash, code |-> code]

\* syncConfigWithServer(); httpCode is what http.POST returns
syncConfigWithServer(d, httpCode) ==
  IF ~d.wifiConnected \/ ~d.config.deviceConfig.autoSync
     \/ Len(d.config.deviceConfig.configServerUrl) = 0
    THEN d
  ELSE IF generateConfigHash(d.config) = d.lastConfigHash
    THEN d
  ELSE LET currentHash == generateConfigHash(d.config)
           posted == [d EXCEPT !.httpRequests =
                        Append(@, SyncRequest(d.config.deviceConfig.configServerUrl,
                                              currentHash, httpCode))]
       IN IF httpCode = 200
            THEN println([posted EXCEPT !.lastConfigHash = currentHash],
                         "Config synced with server")
            ELSE println(posted, "Config sync failed: " \o StringOfInt(httpCode))

\* the hash the config server holds after the requests of one handler: the
\* X-Config-Hash of the POST it answered with 200, if any
accepted(sent, held) ==
  IF \E r \in 1..Len(sent) : sent[r].kind = "sync" /\ sent[r].code = 200
    THEN sent[CHOOSE r \in 1..Len(sent) :
                sent[r].kind = "sync" /\ sent[r].code = 200].hash
    ELSE held

SYNC_INTERVAL == 60000

\* loop(), line 337: the condition of the periodic config sync
syncDue(d) ==
  /\ d.power = "on"
  /\ d.config.deviceConfig.autoSync /\ d.wifiConnected /\ ~d.lowPowerMode
  /\ millis - lastConfigSync > SYNC_INTERVAL

InitPower ==
  /\ \E flash \in InitialPreferences : flash # <<>> /\ Is(Booted(flash, TRUE))
  /\ lastInput = Input("boot", 0)
  /\ InitLoop
  /\ InitCoordinator

\* loop(): one iteration (button scan, power check, discovery broadcast,
\* config sync) and
\* the time until the next
loopIterationWithin(uptime) ==
  /\ power = "on"
  /\ \E dt \in PowerSteps :
       /\ millis + dt <= SETUP_TIME + uptime
       /\ millis' = millis + dt
  /\ LET after == loopButtonsFrom(Device, 0, {}, 200)
         checkDue == after.d.power = "on"
                       /\ millis - lastPowerCheck > POWER_CHECK_INTERVAL
         d1 == IF checkDue THEN checkPowerManagement(after.d) ELSE after.d
         d2 == IF announceDue(d1) THEN broadcastDiscovery(d1) ELSE d1
         d3 == IF syncDue(d2) THEN syncConfigWithServer(d2, 200) ELSE d2
     IN /\ Becomes(d3)
        /\ Polled(after.fired)
        /\ lastPowerCheck' = IF checkDue THEN millis ELSE lastPowerCheck
        /\ lastDiscoveryBroadcast' =
             IF announceDue(d1) THEN millis ELSE lastDiscoveryBroadcast
        /\ lastConfigSync' = IF syncDue(d2) THEN millis ELSE lastConfigSync
        /\ configServerHash' = accepted(d3.httpRequests, configServerHash)
  /\ lastInput' = Input("loop", 0)
  /\ UNCHANGED <<buttonLine, tasks, coordinatorVars>>

loopIteration == loopIterationWithin(MaxAwake)

NextPower ==
  \/ loopIteration
  \/ \E i \in OperatedButtons : pressButton(i)
  \/ \E i \in OperatedButtons : releaseButton(i)
  \/ setup

SpecPower == InitPower /\ [][NextPower]_vars

(***************************************************************************)
(* Dispatch of press events, physical or TEST:<n>, on a device whose flash *)
(* holds a button layout that was uploaded earlier.                        *)
(***************************************************************************)
\* the uploads that produced the layout in flash: none, or a buttons document
LayoutPayloads == {0, 5, 6, 7, 8}

\* the flash after the document was uploaded to a provisioned device
ProvisionedFlash(k) ==
  LET flash == CHOOSE f \in InitialPreferences : f # <<>>
  IN IF k = 0 THEN flash
     ELSE handleConfigUpload(Booted(flash, TRUE), ConfigPayloads[k]).preferences

\* the buttons that are pushed by hand here
DispatchButtons == {1, 3}

InitDispatch ==
  /\ \E k \in LayoutPayloads : \E connected \in BOOLEAN :
       Is(Booted(ProvisionedFlash(k), connected))
  /\ lastInput = Input("boot", 0)
  /\ InitLoop
  /\ InitCoordinator

\* loop(): handleSerialCommands() reads a TEST:<n> line
serialTest ==
  /\ power = "on"
  /\ \E k \in 1..Len(TestWords) : \E httpCode \in HttpOutcomes :
       /\ Becomes(processSerialCommand(Device, SerialCommand(TestWords[k], NoPayload),
                                       httpCode))
       /\ lastInput' = Input("serial TEST", k)
  /\ UNCHANGED <<loopVars, coordinatorVars>>

NextDispatch ==
  \/ serialTest
  \/ loopButtons
  \/ \E i \in DispatchButtons : pressButton(i)
  \/ \E i \in DispatchButtons : releaseButton(i)
  \/ setup

SpecDispatch == InitDispatch /\ [][NextDispatch]_vars

(***************************************************************************)
(* The coordinator's DiscoveryService.  Date.now() is counted from the     *)
(* start of the service.  A Map is its entries in insertion order.         *)
(***************************************************************************)
DISCOVERY_PORT == 12345
CONFIG_PORT == 12346

\* const cutoff = Date.now() - 120000
DEVICE_TTL == 120000

\* a property the JSON message does not have
Undefined == "undefined"

\* a || b on strings
orElse(a, b) == IF a = Undefined \/ a = "" THEN b ELSE a

mapHas(m, key) == \E i \in 1..Len(m) : m[i].key = key

mapGet(m, key) == m[CHOOSE i \in 1..Len(m) : m[i].key = key].value

\* Map.set with every call adding an entry
mapSetAppend(m, key, value) == Append(m, [key |-> key, value |-> value])

\* Map.set: the value of an existing key is replaced in place, a new key is
\* added at the end
mapSet(m, key, value) ==
  IF mapHas(m, key)
    THEN [i \in 1..Len(m) |->
            IF m[i].key = key THEN [key |-> key, value |-> value] ELSE m[i]]
    ELSE Append(m, [key |-> key, value |-> value])

\* Map.delete
mapDelete(m, key) == SelectSeq(m, LAMBDA e : e.key # key)

\* Array.from(map.values())
mapValues(m) == [i \in 1..Len(m) |-> m[i].value]

\* the hash a factory-fresh device reports
FactoryHash == generateConfigHash(DefaultConfig)

\* the snapshots the coordinator syncs: configuration documents
Snapshots == {2, 5}

\* the hash a device reports once it holds the snapshot
SnapshotHashOf(k) ==
  generateConfigHash(handleConfigUpload(Booted(<<>>, TRUE), ConfigPayloads[k]).config)

SnapshotHash == (2 :> SnapshotHashOf(2)) @@ (5 :> SnapshotHashOf(5))

\* "ip": 167772166 in a message: a JSON number, written here as its digits
\* after a #
NumericIp == "#167772166"

\* socket.send(msg, port, address, callback) accepts a string as address and
\* throws ERR_INVALID_ARG_TYPE for any other value
validateString(address) == ~startsWith(address, "#")

DiscoveryMessage(type, id, name, ip, hash) ==
  [type |-> type, device_id |-> id, device_name |-> name,
   device_type |-> DEVICE_TYPE_BUTTON_MATRIX, version |-> VERSION, ip |-> ip,
   mac |-> "mac-" \o id, battery |-> 4, uptime |-> 5000,
   config_hash |-> hash, wifi_rssi |-> Undefined]

\* the datagrams that reach the discovery socket, with their source address
DiscoveryDatagrams ==
  << [message |-> DiscoveryMessage("device_discovery", "PATCOM-a", "PATCOM",
                                   "10.0.0.5", FactoryHash),
      address |-> "10.0.0.5"],
     [message |-> DiscoveryMessage("device_response", "PATCOM-a", "Studio",
                                   "10.0.0.5", SnapshotHash[2]),
      address |-> "10.0.0.5"],
     [message |-> DiscoveryMessage("device_discovery", "PATCOM-a", "PATCOM",
                                   Undefined, FactoryHash),
      address |-> "10.0.0.9"],
     [message |-> DiscoveryMessage("device_discovery", "PATCOM-b", "PATCOM",
                                   "10.0.0.6", FactoryHash),
      address |-> "10.0.0.6"],
     [message |-> DiscoveryMessage("discover_devices", Undefined, Undefined,
                                   Undefined, Undefined),
      address |-> "10.0.0.2"],
     [message |-> DiscoveryMessage("device_discovery", "PATCOM-b", "PATCOM",
                                   NumericIp, FactoryHash),
      address |-> "10.0.0.6"] >>

\* the calls of syncConfigToDevice(deviceId, configData)
SyncCalls ==
  << [deviceId |-> "PATCOM-a", snapshot |-> 2],
     [deviceId |-> "PATCOM-a", snapshot |-> 5],
     [deviceId |-> "PATCOM-b", snapshot |-> 2],
     [deviceId |-> "PATCOM-c", snapshot |-> 2] >>

\* how far Date.now() moves between two calls
ClockSteps == {DEVICE_TTL \div 2, DEVICE_TTL + 1}

\* the model stops the coordinator's clock here
MaxClock == 180001

Datagram(port, address, type, deviceId, snapshot) ==
  [port |-> port, address |-> address, type |-> type, device_id |-> deviceId,
   snapshot |-> snapshot]

\* handleDiscoveryMessage(message, rinfo)
handleDiscoveryMessage(m, message, address, now) ==
  IF message.type = "device_discovery" \/ message.type = "device_response"
    THEN LET device ==
               [deviceId |-> message.device_id, deviceName |-> message.device_name,
                deviceType |-> message.device_type, version |-> message.version,
                ip |-> orElse(message.ip, address), mac |-> message.mac,
                battery |-> message.battery, uptime |-> message.uptime,
                configHash |-> message.config_hash, rssi |-> message.wifi_rssi,
                lastSeen |-> now]
         IN mapSet(m, device.deviceId, device)
    ELSE m

RECURSIVE sweepThroughCutoffFrom(_, _, _)
\* a sweep that also takes the records last seen exactly at the cutoff
sweepThroughCutoffFrom(m, i, cutoff) ==
  IF i > Len(m) THEN m
  ELSE IF m[i].value.lastSeen <= cutoff
    THEN sweepThroughCutoffFrom(mapDelete(m, m[i].key), i, cutoff)
    ELSE sweepThroughCutoffFrom(m, i + 1, cutoff)

RECURSIVE sweepFrom(_, _, _)
\* discoverDevices, lines 115-121: the records older than the cutoff go
sweepFrom(m, i, cutoff) ==
  IF i > Len(m) THEN m
  ELSE IF m[i].value.lastSeen < cutoff
    THEN sweepFrom(mapDelete(m, m[i].key), i, cutoff)
    ELSE sweepFrom(m, i + 1, cutoff)

\* syncConfigToDevice(deviceId, configData) throws: the device is not in the
\* map, or socket.send rejects its address
syncConfigThrows(m, deviceId) ==
  ~mapHas(m, deviceId) \/ ~validateString(mapGet(m, deviceId).ip)

\* syncConfigToDevice(deviceId, configData): the datagrams it sends
syncConfigToDevice(m, deviceId, snapshot) ==
  IF syncConfigThrows(m, deviceId) THEN <<>>
  ELSE LET device == mapGet(m, deviceId)
       IN <<Datagram(CONFIG_PORT, device.ip, "set_config", device.deviceId, snapshot)>>

RECURSIVE syncAllFrom(_, _, _)
\* syncAllDevices(configData): one call per entry of the map; an exception
\* leaves the for loop
syncAllFrom(m, i, snapshot) ==
  IF i > Len(m) THEN <<>>
  ELSE IF syncConfigThrows(m, m[i].key) THEN <<>>
  ELSE syncConfigToDevice(m, m[i].key, snapshot) \o syncAllFrom(m, i + 1, snapshot)

\* the set_config datagrams for a device among those a step sent
sentTo(out, id) ==
  Cardinality({k \in 1..Len(out) : out[k].type = "set_config" /\ out[k].device_id = id})

\* the model stops counting unanswered set_config datagrams here
MaxOutstanding == 2

\* the sent datagrams are counted as outstanding
sends(out) ==
  /\ \A id \in DOMAIN outstanding : outstanding[id] + sentTo(out, id) <= MaxOutstanding
  /\ outstanding' = [id \in DOMAIN outstanding |-> outstanding[id] + sentTo(out, id)]

\* the datagrams that reach the config socket, each with the device it is from
ConfigMessages ==
  << [message |-> [type |-> "config_update_response", device_id |-> Undefined],
      from |-> "PATCOM-a"],
     [message |-> [type |-> "config_update_response", device_id |-> Undefined],
      from |-> "PATCOM-b"],
     [message |-> [type |-> "config_response", device_id |-> "PATCOM-a"],
      from |-> "PATCOM-a"],
     [message |-> [type |-> "config_response", device_id |-> "PATCOM-b"],
      from |-> "PATCOM-b"] >>

\* setTimeout(..., 5000) in getDeviceConfig
CONFIG_REQUEST_TIMEOUT == 5000

\* the model stops after this many getDeviceConfig calls
MaxRequests == 2

\* the devices getDeviceConfig is called for
RequestedIds == <<"PATCOM-a", "PATCOM-b", "PATCOM-c">>

\* one getDeviceConfig call: its promise, whether its handler is registered
\* for 'device-config-received', whether its timer is armed, when the call
\* was made, and whether a get_config went out that the device has not
\* answered yet
Request(deviceId, promise, listening, timer, sent, awaited) ==
  [deviceId |-> deviceId, promise |-> promise, listening |-> listening,
   timer |-> timer, sent |-> sent, awaited |-> awaited]

\* getDeviceConfig(deviceId): the call's record
getDeviceConfigCall(m, deviceId, now) ==
  IF ~mapHas(m, deviceId)
    THEN Request(deviceId, "rejected: Device not found", FALSE, FALSE, now, FALSE)
  ELSE IF ~validateString(mapGet(m, deviceId).ip)
    THEN Request(deviceId, "rejected: ERR_INVALID_ARG_TYPE", TRUE, TRUE, now, FALSE)
  ELSE Request(deviceId, "pending", TRUE, TRUE, now, TRUE)

\* getDeviceConfig(deviceId): the datagram it sends
getDeviceConfigSends(m, deviceId) ==
  IF ~mapHas(m, deviceId) \/ ~validateString(mapGet(m, deviceId).ip) THEN <<>>
  ELSE <<Datagram(CONFIG_PORT, mapGet(m, deviceId).ip, "get_config", deviceId, 0)>>

\* a timer callback that clears the timer and leaves the promise pending
timeoutCallbackSilent(request) == [request EXCEPT !.timer = FALSE]

\* the timer callback of getDeviceConfig: reject(new Error('Config request
\* timeout')); a settled promise stays as it is
timeoutCallback(request) ==
  [request EXCEPT !.timer = FALSE,
                  !.promise = IF @ = "pending"
                                THEN "rejected: Config request timeout" ELSE @]

\* handler(data) of getDeviceConfig on 'device-config-received'
handler(request, deviceId) ==
  IF request.listening /\ request.deviceId = deviceId
    THEN [request EXCEPT !.timer = FALSE, !.listening = FALSE,
                         !.promise = IF @ = "pending" THEN "resolved" ELSE @]
    ELSE request

\* handleConfigMessage(message, rinfo): a config_response is emitted as
\* 'device-config-received' to the registered handlers; a
\* config_update_response is emitted as 'config-update-ack', which has no
\* listener inside the service
handleConfigMessage(rs, message) ==
  IF message.type = "config_response"
    THEN [r \in 1..Len(rs) |-> handler(rs[r], message.device_id)]
    ELSE rs

\* a timer that is due runs before the next datagram is handled
TimerDue(r) ==
  requests[r].timer /\ clock >= requests[r].sent + CONFIG_REQUEST_TIMEOUT

InitRegistry ==
  /\ Is(Booted(<<>>, FALSE))
  /\ lastInput = Input("boot", 0)
  /\ InitLoop
  /\ InitCoordinator

\* discoverySocket.on('message'): a datagram arrives
discoveryMessage ==
  /\ \E k \in 1..Len(DiscoveryDatagrams) :
       /\ discoveredDevices' =
            handleDiscoveryMessage(discoveredDevices, DiscoveryDatagrams[k].message,
                                   DiscoveryDatagrams[k].address, clock)
       /\ received' = <<DiscoveryDatagrams[k]>>
       /\ lastInput' = Input("discovery message", k)
  /\ configSocketOut' = <<>>
  /\ discoverySocketOut' = <<>>
  /\ listed' = <<>>
  /\ UNCHANGED <<deviceVars, loopVars, clock>>
  /\ UNCHANGED <<outstanding, requests>>

\* discoverDevices(): broadcast on the interface's subnet, then sweep
discoverDevices ==
  /\ discoverySocketOut' =
       <<Datagram(DISCOVERY_PORT, "10.0.0.255", "discover_devices", Undefined, 0)>>
  /\ discoveredDevices' = sweepFrom(discoveredDevices, 1, clock - DEVICE_TTL)
  /\ lastInput' = Input("discoverDevices", 0)
  /\ configSocketOut' = <<>>
  /\ listed' = <<>>
  /\ received' = <<>>
  /\ UNCHANGED <<deviceVars, loopVars, clock>>
  /\ UNCHANGED <<outstanding, requests>>

\* getDiscoveredDevices()
getDiscoveredDevices ==
  /\ listed' = mapValues(discoveredDevices)
  /\ lastInput' = Input("getDiscoveredDevices", 0)
  /\ configSocketOut' = <<>>
  /\ discoverySocketOut' = <<>>
  /\ received' = <<>>
  /\ UNCHANGED <<deviceVars, loopVars, discoveredDevices, clock>>
  /\ UNCHANGED <<outstanding, requests>>

\* syncConfigToDevice(deviceId, configData); for an unknown device it throws
\* and sends nothing
syncToDevice ==
  /\ \E k \in 1..Len(SyncCalls) :
       /\ configSocketOut' =
            syncConfigToDevice(discoveredDevices, SyncCalls[k].deviceId,
                               SyncCalls[k].snapshot)
       /\ lastInput' = Input("syncConfigToDevice", k)
  /\ sends(configSocketOut')
  /\ requests' = requests
  /\ discoverySocketOut' = <<>>
  /\ listed' = <<>>
  /\ received' = <<>>
  /\ UNCHANGED <<deviceVars, loopVars, discoveredDevices, clock>>

\* syncAllDevices(configData)
syncAllDevices ==
  /\ \E snapshot \in Snapshots :
       /\ configSocketOut' = syncAllFrom(discoveredDevices, 1, snapshot)
       /\ lastInput' = Input("syncAllDevices", snapshot)
  /\ sends(configSocketOut')
  /\ requests' = requests
  /\ discoverySocketOut' = <<>>
  /\ listed' = <<>>
  /\ received' = <<>>
  /\ UNCHANGED <<deviceVars, loopVars, discoveredDevices, clock>>

\* time passes at the coordinator
clockTick ==
  /\ \E dt \in ClockSteps :
       /\ clock + dt <= MaxClock
       /\ clock' = clock + dt
  /\ lastInput' = Input("clock", 0)
  /\ configSocketOut' = <<>>
  /\ discoverySocketOut' = <<>>
  /\ listed' = <<>>
  /\ received' = <<>>
  /\ UNCHANGED <<deviceVars, loopVars, discoveredDevices>>
  /\ UNCHANGED <<outstanding, requests>>

\* configSocket.on('message'): a device answers one of the set_config
\* datagrams it was sent
configUpdateResponse ==
  /\ \E k \in 1..Len(ConfigMessages) :
       /\ ConfigMessages[k].message.type = "config_update_response"
       /\ outstanding[ConfigMessages[k].from] > 0
       /\ outstanding' = [outstanding EXCEPT ![ConfigMessages[k].from] = @ - 1]
       /\ requests' = handleConfigMessage(requests, ConfigMessages[k].message)
       /\ lastInput' = Input("config message", k)
  /\ configSocketOut' = <<>>
  /\ discoverySocketOut' = <<>>
  /\ listed' = <<>>
  /\ received' = <<>>
  /\ UNCHANGED <<deviceVars, loopVars, discoveredDevices, clock>>

\* getDeviceConfig(deviceId)
getDeviceConfig ==
  /\ Len(requests) < MaxRequests
  /\ \E k \in 1..Len(RequestedIds) :
       /\ requests' = Append(requests,
                             getDeviceConfigCall(discoveredDevices, RequestedIds[k], clock))
       /\ configSocketOut' = getDeviceConfigSends(discoveredDevices, RequestedIds[k])
       /\ lastInput' = Input("getDeviceConfig", k)
  /\ discoverySocketOut' = <<>>
  /\ listed' = <<>>
  /\ received' = <<>>
  /\ UNCHANGED <<deviceVars, loopVars, discoveredDevices, clock, outstanding>>

\* configSocket.on('message'): a device answers a get_config it was sent
configResponse ==
  /\ \A r \in 1..Len(requests) : ~TimerDue(r)
  /\ \E r \in 1..Len(requests) : \E k \in 1..Len(ConfigMessages) :
       /\ ConfigMessages[k].message.type = "config_response"
       /\ ConfigMessages[k].from = requests[r].deviceId
       /\ requests[r].awaited
       /\ requests' = handleConfigMessage([requests EXCEPT ![r].awaited = FALSE],
                                          ConfigMessages[k].message)
       /\ lastInput' = Input("config message", k)
  /\ configSocketOut' = <<>>
  /\ discoverySocketOut' = <<>>
  /\ listed' = <<>>
  /\ received' = <<>>
  /\ UNCHANGED <<deviceVars, loopVars, discoveredDevices, clock, outstanding>>

\* the timer of a getDeviceConfig call fires
requestTimeout ==
  /\ \E r \in 1..Len(requests) :
       /\ TimerDue(r)
       /\ requests' = [requests EXCEPT ![r] = timeoutCallback(@)]
       /\ lastInput' = Input("request timeout", r)
  /\ configSocketOut' = <<>>
  /\ discoverySocketOut' = <<>>
  /\ listed' = <<>>
  /\ received' = <<>>
  /\ UNCHANGED <<deviceVars, loopVars, discoveredDevices, clock, outstanding>>

NextRegistry ==
  \/ discoveryMessage
  \/ discoverDevices
  \/ getDiscoveredDevices
  \/ syncToDevice
  \/ syncAllDevices
  \/ configUpdateResponse
  \/ clockTick

SpecRegistry == InitRegistry /\ [][NextRegistry]_vars

(***************************************************************************)
(* The coordinator's get_config requests, on a registry that has heard of  *)
(* PATCOM-a and PATCOM-b at the start of the service.                      *)
(***************************************************************************)
\* the announcements of PATCOM-b: with its address as a string, as a number
AnnouncementsOfB == {4, 6}

InitRequests ==
  /\ Is(Booted(<<>>, FALSE))
  /\ lastInput = Input("boot", 0)
  /\ InitLoop
  /\ \E k \in AnnouncementsOfB :
       discoveredDevices =
         handleDiscoveryMessage(
           handleDiscoveryMessage(<<>>, DiscoveryDatagrams[1].message,
                                  DiscoveryDatagrams[1].address, 0),
           DiscoveryDatagrams[k].message, DiscoveryDatagrams[k].address, 0)
  /\ clock = 0
  /\ configSocketOut = <<>>
  /\ discoverySocketOut = <<>>
  /\ listed = <<>>
  /\ received = <<>>
  /\ outstanding = [id \in {"PATCOM-a", "PATCOM-b", "PATCOM-c"} |-> 0]
  /\ requests = <<>>

NextRequests ==
  \/ discoverDevices
  \/ getDeviceConfig
  \/ configResponse
  \/ requestTimeout
  \/ clockTick

SpecRequests == InitRequests /\ [][NextRequests]_vars

(***************************************************************************)
(* Properties of the button polling loop.                                  *)
(***************************************************************************)

\* the minimum hold the design asks for before a press counts (50 to 100 ms)
HOLD_TIME == 50

\* the loop emitted a press event for button i in this step
Emits(i) == pollEvents'[i].count = pollEvents[i].count + 1

\* C3: any two press events the polling loop emits for the same button are
\* more than BUTTON_DEBOUNCE milliseconds apart
C3_Debounce ==
  [][\A i \in ButtonIds :
       Emits(i) /\ pollEvents[i].count > 0
         => pollEvents'[i].last - pollEvents[i].last > BUTTON_DEBOUNCE]_vars

\* C3 witness: a button was pressed a second time less than BUTTON_DEBOUNCE
\* after its press event, the loop polled it, and there is still one event
C3_Witness ==
  /\ lastInput.channel = "loop buttons"
  /\ \E i \in ButtonIds :
       /\ buttonLine[i] = "LOW"
       /\ pollEvents[i].count = 1
       /\ holds[i].start > pollEvents[i].last
       /\ millis - pollEvents[i].last < BUTTON_DEBOUNCE
       /\ holds[i].events = 0

\* C4: a button released before HOLD_TIME has elapsed since its line went
\* to the pressed level has produced no press event
C4_HoldTimeFilter ==
  [][\A i \in ButtonIds :
       buttonLine[i] = "LOW" /\ buttonLine'[i] = "HIGH"
         /\ millis - holds[i].start < HOLD_TIME
         => holds[i].events = 0]_vars

\* C5: one continuous hold of a button emits at most one press event
C5_OneEventPerHold ==
  \A i \in ButtonIds : buttonLine[i] = "LOW" => holds[i].events <= 1

(***************************************************************************)
(* Properties of the dispatch of press events.                             *)
(***************************************************************************)

\* the button a TEST line names
TestTarget(k) == toInt(substring(toUpperCase(TestWords[k]), 5))

\* this step handled a press event for button i: a TEST line naming it, or
\* the polling loop finding it pressed
Triggered(i) ==
  \/ lastInput'.channel = "serial TEST" /\ TestTarget(lastInput'.index) = i
  \/ lastInput'.channel = "loop buttons" /\ Emits(i)

\* the requests this step issued for button i
RequestsFor(i) == {k \in 1..Len(httpRequests') : httpRequests'[k].button = i}

\* the press event of button i was reported on the serial line
Reported(out, i) ==
  \E k \in 1..Len(out) :
    out[k] = SerialLine("EVENT", "button_press", TRUE, StringOfInt(i))

IsNetworkAction(action) == action \in {ACTION_HTTP, ACTION_WEBHOOK}

\* C9: handling a press event, physical or TEST, for a button that is
\* disabled or has no action issues no network request
C9_SkippedDispatch ==
  [][\A i \in ButtonIds :
       Triggered(i)
         /\ (~config.buttonConfigs[i].enabled
               \/ config.buttonConfigs[i].action = ACTION_NONE)
         => RequestsFor(i) = {}]_vars

\* C9 witness: with WiFi up, the loop handled the press of a disabled button
\* that has a webhook with a url, and nothing was requested
C9_Witness ==
  /\ lastInput.channel = "loop buttons"
  /\ wifiConnected
  /\ \E i \in ButtonIds :
       /\ pollEvents[i].count = 1
       /\ Reported(serialOut, i)
       /\ ~config.buttonConfigs[i].enabled
       /\ config.buttonConfigs[i].action = ACTION_WEBHOOK
       /\ Len(member(config.buttonConfigs[i].actionData, "url").s) > 0
  /\ httpRequests = <<>>

\* C10: triggering an enabled Http or Webhook button whose url is the empty
\* string issues no network request, and the device carries on
C10_EmptyUrlSkipped ==
  [][\A i \in ButtonIds :
       Triggered(i)
         /\ config.buttonConfigs[i].enabled
         /\ IsNetworkAction(config.buttonConfigs[i].action)
         /\ member(config.buttonConfigs[i].actionData, "url") = JStr("")
         => RequestsFor(i) = {} /\ power' = "on" /\ Reported(serialOut', i)]_vars

\* C10 witness: with WiFi up, TEST:3 ran on a button 3 that has action Http
\* and an empty url; the skip was logged and nothing was requested
C10_Witness ==
  /\ lastInput = Input("serial TEST", 2)
  /\ wifiConnected
  /\ config.buttonConfigs[3].enabled
  /\ config.buttonConfigs[3].action = ACTION_HTTP
  /\ member(config.buttonConfigs[3].actionData, "url") = JStr("")
  /\ \E k \in 1..Len(serialOut) :
       serialOut[k].message = "No URL configured for HTTP action"
  /\ Reported(serialOut, 3)
  /\ httpRequests = <<>>

\* button i holds a network action whose url validateConfiguration rejects
HasInvalidUrl(c, i) ==
  /\ IsNetworkAction(c.buttonConfigs[i].action)
  /\ isString(urlOf(c.buttonConfigs[i]))
  /\ Len(urlOf(c.buttonConfigs[i]).s) > 0
  /\ ~isValidUrl(urlOf(c.buttonConfigs[i]).s)

\* C11: handling a press event for a button whose action is Http or Webhook
\* and whose url is non-empty but begins with neither http:// nor https://
\* issues no network request
C11_InvalidUrlNoRequest ==
  [][\A i \in ButtonIds :
       Triggered(i) /\ HasInvalidUrl(config, i) => RequestsFor(i) = {}]_vars

(***************************************************************************)
(* Properties of the serial SET_CONFIG command.                            *)
(***************************************************************************)

\* this step processed the serial line SET_CONFIG:<ConfigPayloads[k]>
SetConfigReceived(k) == lastInput' = Input("serial SET_CONFIG", k)

\* the RESPONSE line of type config_upload with this success flag was written
UploadResponse(out, success) ==
  \E i \in 1..Len(out) :
    /\ out[i].tag = "RESPONSE"
    /\ out[i].type = "config_upload"
    /\ out[i].success = success

\* C1: a serial SET_CONFIG whose payload is not well-formed JSON is answered
\* with RESPONSE config_upload success false, and the configuration in memory,
\* the configuration in flash and the cached hash stay as they were
C1_MalformedRejected ==
  [][\A k \in PayloadIds :
       SetConfigReceived(k) /\ ~wellFormed(ConfigPayloads[k])
         => /\ UploadResponse(serialOut', FALSE)
            /\ config' = config
            /\ preferences' = preferences
            /\ lastConfigHash' = lastConfigHash]_vars

\* the device section's values are the stored ones
HoldsDevice(c, section) ==
  /\ containsKey(section, "name")
       => c.deviceConfig.deviceName = member(section, "name").s
  /\ containsKey(section, "brightness")
       => c.deviceConfig.brightness = member(section, "brightness").n
  /\ containsKey(section, "discoverable")
       => c.deviceConfig.discoverable = (member(section, "discoverable").s = "true")

\* the network section's values are the stored ones
HoldsNetwork(c, section) ==
  /\ containsKey(section, "ssid")
       => c.networkConfig.ssid = member(section, "ssid").s
  /\ containsKey(section, "password")
       => c.networkConfig.password = member(section, "password").s

\* the values of one element of the buttons section are the stored ones
HoldsButton(c, button) ==
  LET slot == c.buttonConfigs[member(button, "id").n]
  IN /\ containsKey(button, "name") => slot.name = member(button, "name").s
     /\ containsKey(button, "action") => slot.action = member(button, "action").n
     /\ containsKey(button, "enabled")
          => slot.enabled = (member(button, "enabled").s = "true")
     /\ containsKey(button, "config") => slot.actionData = member(button, "config")

\* the configuration holds the values the document gives
HoldsValuesOf(c, doc) ==
  /\ containsKey(doc, "device") => HoldsDevice(c, member(doc, "device"))
  /\ containsKey(doc, "network") => HoldsNetwork(c, member(doc, "network"))
  /\ containsKey(doc, "buttons")
       => \A i \in 1..Len(member(doc, "buttons").m) :
            HoldsButton(c, member(doc, "buttons").m[i])

\* C2: after a serial SET_CONFIG with a well-formed document the stored
\* configuration, in memory and in flash, holds the document's values and
\* the reply is RESPONSE config_upload success true
C2_ValidTakesEffect ==
  [][\A k \in PayloadIds :
       SetConfigReceived(k) /\ wellFormed(ConfigPayloads[k])
         => /\ HoldsValuesOf(config', ConfigPayloads[k])
            /\ preferences' = savedPreferences(preferences, config')
            /\ UploadResponse(serialOut', TRUE)]_vars

(***************************************************************************)
(* Properties of the coordinator's device registry.                        *)
(***************************************************************************)

\* C6: syncConfigToDevice for a device whose hash in the registry equals the
\* hash of the snapshot sends nothing
C6_HashMatchNoOp ==
  [][\A k \in 1..Len(SyncCalls) :
       lastInput' = Input("syncConfigToDevice", k)
         /\ mapHas(discoveredDevices, SyncCalls[k].deviceId)
         /\ mapGet(discoveredDevices, SyncCalls[k].deviceId).configHash
              = SnapshotHash[SyncCalls[k].snapshot]
         => configSocketOut' = <<>>]_vars

\* C7: getDiscoveredDevices() returns no record whose lastSeen is more than
\* 120 s in the past
C7_StaleAbsent ==
  lastInput.channel = "getDiscoveredDevices"
    => \A i \in 1..Len(listed) : clock - listed[i].lastSeen <= DEVICE_TTL

\* the record a discovery datagram stands for, apart from lastSeen
Carries(device, datagram) ==
  /\ device.deviceId = datagram.message.device_id
  /\ device.deviceName = datagram.message.device_name
  /\ device.deviceType = datagram.message.device_type
  /\ device.version = datagram.message.version
  /\ device.ip = IF datagram.message.ip = Undefined THEN datagram.address
                 ELSE datagram.message.ip
  /\ device.mac = datagram.message.mac
  /\ device.battery = datagram.message.battery
  /\ device.uptime = datagram.message.uptime
  /\ device.configHash = datagram.message.config_hash
  /\ device.rssi = datagram.message.wifi_rssi

IsDiscovery(datagram) ==
  datagram.message.type \in {"device_discovery", "device_response"}

\* the registry's records for a device id
RecordsOf(m, id) == {i \in 1..Len(m) : m[i].key = id \/ m[i].value.deviceId = id}

\* the device ids the registry knows before or after the step
KnownIds ==
  {discoveredDevices[i].key : i \in 1..Len(discoveredDevices)}
    \cup {discoveredDevices'[i].key : i \in 1..Len(discoveredDevices')}

\* the step left the record of this device id as it was
Untouched(id) ==
  /\ mapHas(discoveredDevices', id) = mapHas(discoveredDevices, id)
  /\ mapHas(discoveredDevices, id)
       => mapGet(discoveredDevices', id) = mapGet(discoveredDevices, id)

\* the step altered no record: each is as it was, or gone
NoneAltered ==
  \A id \in KnownIds :
    mapHas(discoveredDevices', id)
      => /\ mapHas(discoveredDevices, id)
         /\ mapGet(discoveredDevices', id) = mapGet(discoveredDevices, id)

\* C8: the registry holds at most one record per deviceId; a processed
\* discovery message leaves exactly its own fields in the record of its
\* deviceId and touches no other record; no other step alters a record
C8_RegistryUpsert ==
  [][/\ \A id \in KnownIds : Cardinality(RecordsOf(discoveredDevices', id)) <= 1
     /\ IF received' # <<>> /\ IsDiscovery(received'[1])
          THEN LET id == received'[1].message.device_id
               IN /\ mapHas(discoveredDevices', id)
                  /\ Carries(mapGet(discoveredDevices', id), received'[1])
                  /\ mapGet(discoveredDevices', id).lastSeen = clock
                  /\ \A other \in KnownIds \ {id} : Untouched(other)
          ELSE NoneAltered]_vars

\* C8 witness: the record of a device that was discovered first was
\* overwritten by a later message of that device, and kept its place
C8_Witness ==
  /\ lastInput = Input("discovery message", 2)
  /\ Len(discoveredDevices) = 2
  /\ discoveredDevices[1].key = "PATCOM-a"
  /\ discoveredDevices[1].value.deviceName = "Studio"
  /\ discoveredDevices[1].value.lastSeen > discoveredDevices[2].value.lastSeen

(***************************************************************************)
(* Properties of configuration validation.                                 *)
(***************************************************************************)

\* C12: whenever static addresses have been applied to the network
\* interface, the ip and the gateway they were taken from parse as
\* dotted-quad IPv4 addresses
C12_StaticIpValid ==
  wifiConfig # <<>>
    => isValidIP(wifiConfig[1].ip) /\ isValidIP(wifiConfig[1].gateway)

(***************************************************************************)
(* Properties of the UDP configuration service.                            *)
(***************************************************************************)

\* this step handled the datagram set_config carrying ConfigPayloads[k]
UdpSetConfigReceived(k) == lastInput' = Input("udp set_config", k)

\* the replies of one type among the datagrams a step sent
RepliesOfType(out, type) == {r \in 1..Len(out) : out[r].type = type}

\* C13: a set_config whose snapshot fails validation (it turns a
\* configuration without validation errors into one with errors) is not
\* answered by a config_update_response with success = true
C13_SetConfigTruthful ==
  [][\A k \in PayloadIds :
       UdpSetConfigReceived(k) /\ ~hasErrors(config) /\ hasErrors(config')
         => \A r \in RepliesOfType(udpOut', "config_update_response") :
              ~udpOut'[r].success]_vars

\* C14: every well-formed set_config request the device handles is answered
\* by a config_update_response, a network section in the payload included
C14_SetConfigAnswered ==
  [][\A k \in PayloadIds :
       UdpSetConfigReceived(k) /\ wellFormed(ConfigPayloads[k])
         => RepliesOfType(udpOut', "config_update_response") # {}]_vars

\* the replies that carry a config_hash
HashReplyTypes ==
  {"config_update_response", "config_response", "device_response", "device_discovery"}

\* every datagram the last step sent carries the hash of the configuration the
\* device holds, and has saved, after that step
ReplyHashIsCurrent ==
  \A r \in 1..Len(udpOut) :
    udpOut[r].type \in HashReplyTypes
      => /\ udpOut[r].hash = generateConfigHash(config)
         /\ udpOut[r].type = "config_update_response"
              => preferences # <<>>
                   /\ udpOut[r].hash = generateConfigHash(loadConfiguration(preferences))

\* a get_config or discovery reply that directly follows a
\* config_update_response reports the hash that response carried
NextReplySameHash ==
  \A r \in RepliesOfType(udpOut, "config_update_response") :
    \A n \in 1..Len(udpOut') :
      udpOut'[n].type \in HashReplyTypes \ {"config_update_response"}
        => udpOut'[n].hash = udpOut[r].hash

\* C15: the config_hash of a config_update_response is the hash of the
\* configuration stored on the device after the set_config was applied, and
\* the following discovery and get_config replies report the same value
C15_ReplyCarriesNewHash == []ReplyHashIsCurrent /\ [][NextReplySameHash]_vars

\* C15 witness: a set_config changed the device name and was answered with a
\* hash that differs from the factory configuration's
C15_Witness ==
  /\ lastInput = Input("udp set_config", 2)
  /\ config.deviceConfig.deviceName = "Studio"
  /\ \E r \in RepliesOfType(udpOut, "config_update_response") :
       udpOut[r].hash # FactoryHash /\ udpOut[r].hash = lastConfigHash

\* needle occurs in text
occursIn(needle, text) ==
  \E i \in 1..(Len(text) - Len(needle) + 1) :
    SubSeq(text, i, i + Len(needle) - 1) = needle

\* the texts the last step sent in answer to get_config and to CONFIG
ConfigReadReplies ==
  {serializeJson(udpOut[r].body) : r \in RepliesOfType(udpOut, "config_response")}
    \cup {serialOut[r].message :
            r \in {k \in 1..Len(serialOut) :
                     serialOut[k].tag = "RESPONSE" /\ serialOut[k].type = "config"}}

C16_SerialCase ==
  /\ lastInput.channel = "serial"
  /\ config.networkConfig.password = "wpa-key"
  /\ ConfigReadReplies # {}

(***************************************************************************)
(* Properties of the UDP discovery service.                                *)
(***************************************************************************)

\* C20: a device sends a device_response or a device_discovery announcement
\* only while its discoverable flag is true
C20_OnlyDiscoverableAnswer ==
  \A r \in 1..Len(udpOut) :
    udpOut[r].type \in {"device_response", "device_discovery"}
      => config.deviceConfig.discoverable

(***************************************************************************)
(* Properties of the coordinator's sync and get_config requests.           *)
(***************************************************************************)

\* C17: for every deviceId the coordinator has at most one set_config
\* outstanding (sent and not yet acknowledged)
C17_OneSyncInFlight ==
  \A id \in DOMAIN outstanding : outstanding[id] <= 1

\* C18: syncAllDevices sends a set_config to every device of the registry
\* whose own send does not fail, whatever happens with the other devices
C18_SyncAllIsolatesFailures ==
  [][lastInput'.channel = "syncAllDevices"
       => \A i \in 1..Len(discoveredDevices) :
            ~syncConfigThrows(discoveredDevices, discoveredDevices[i].key)
              => sentTo(configSocketOut', discoveredDevices[i].key) = 1]_vars

\* the timer of request r fired in this step
TimedOut(r) == lastInput' = Input("request timeout", r)

\* a timeout rejects the pending request with the timeout error and touches
\* neither the registry nor any other request
TimeoutRejects ==
  \A r \in 1..Len(requests) :
    TimedOut(r) /\ requests[r].promise = "pending"
      => /\ requests'[r].promise = "rejected: Config request timeout"
         /\ discoveredDevices' = discoveredDevices
         /\ \A q \in 1..Len(requests) : q # r => requests'[q] = requests[q]

\* a record leaves the registry only in the sweep of discoverDevices
OnlySweepRemoves ==
  (\E i \in 1..Len(discoveredDevices) :
     ~mapHas(discoveredDevices', discoveredDevices[i].key))
    => lastInput'.channel = "discoverDevices"

\* whatever timed out before, a request to a device of the registry goes out,
\* and the device's reply resolves every request still pending for it
LaterRequestsWork ==
  /\ \A k \in 1..Len(RequestedIds) :
       lastInput' = Input("getDeviceConfig", k)
         /\ ~syncConfigThrows(discoveredDevices, RequestedIds[k])
         => /\ requests'[Len(requests')].promise = "pending"
            /\ \E n \in 1..Len(configSocketOut') :
                 /\ configSocketOut'[n].type = "get_config"
                 /\ configSocketOut'[n].device_id = RequestedIds[k]
  /\ \A r \in 1..Len(requests) :
       lastInput'.channel = "config message"
         /\ requests[r].promise = "pending"
         /\ requests[r].deviceId = ConfigMessages[lastInput'.index].from
         => requests'[r].promise = "resolved"

\* C19: a get_config request that gets no response within the timeout fails
\* with the timeout error, the device's record stays in the registry until
\* the TTL sweep, and later requests to the same or other devices still work
C19_TimeoutIsSoft == [][TimeoutRejects /\ OnlySweepRemoves /\ LaterRequestsWork]_vars

\* C19 witness: the first request timed out, its device is still in the
\* registry, and a second request to the same device was resolved
C19_Witness ==
  /\ Len(requests) = 2
  /\ requests[1].promise = "rejected: Config request timeout"
  /\ mapHas(discoveredDevices, requests[1].deviceId)
  /\ requests[2].deviceId = requests[1].deviceId
  /\ requests[2].promise = "resolved"

(***************************************************************************)
(* Periodic announcements                                                  *)
(***************************************************************************)
\* the longest time between two followed iterations
MaxStep == CHOOSE m \in PowerSteps : \A dt \in PowerSteps : dt <= m

\* C21: a running device that is discoverable and connected to WiFi keeps
\* announcing itself: its last device_discovery broadcast is never older than
\* the announce interval plus one iteration of the loop
C21_KeepsAnnouncing ==
  (power = "on" /\ config.deviceConfig.discoverable /\ wifiConnected)
    => millis - lastDiscoveryBroadcast <= DISCOVERY_INTERVAL + MaxStep

(***************************************************************************)
(* The serial protocol's lines                                             *)
(***************************************************************************)
\* the handler of a serial line has returned with the device still running
SerialLineHandled ==
  /\ lastInput.channel \in {"serial", "serial TEST", "serial SET_CONFIG"}
  /\ power = "on"

\* C22: every serial request line produces exactly one response line, and
\* that line carries a response kind tag
C22_OneLineInOneLineOut ==
  SerialLineHandled => (Len(serialOut) = 1 /\ serialOut[1].tag # "")

\* SerialService.testPortForPATCOM: the probe writes IDENTIFY and the first
\* line the port sends back decides; without a line the 2 s timer gives up
testPortForPATCOM(lines) ==
  /\ Len(lines) > 0
  /\ lines[1].tag = "IDENTIFY"
  /\ lines[1].type = "PATCOM"

\* C23: a device that receives IDENTIFY answers with a line tagged IDENTIFY:,
\* and the coordinator's port probe recognises the device by it
C23_IdentifyAnswered ==
  (lastInput.channel = "serial" /\ SerialWords[lastInput.index] = "IDENTIFY"
     /\ power = "on")
    => /\ \E i \in 1..Len(serialOut) : serialOut[i].tag = "IDENTIFY"
       /\ testPortForPATCOM(serialOut)

(***************************************************************************)
(* The LED after a dispatch                                                *)
(***************************************************************************)
\* a status in 200..299
IsSuccess(code) == code >= 200 /\ code <= 299

\* C24: when the network action of a press event fails (a transport error or
\* a status that is no success), the button's LED state after the handler
\* equals the state it had before the press event was handled
C24_LedRestoredAfterFailure ==
  [][\A k \in 1..Len(httpRequests') :
       ~IsSuccess(httpRequests'[k].code)
         => ledStates'[httpRequests'[k].button] = ledStates[httpRequests'[k].button]]_vars

\* C25: for Http and Webhook actions alike, the dispatcher sets the button's
\* LED state to success exactly when the status is in 200..299; otherwise the
\* state is left as the press toggled it
C25_SuccessIsAny2xx ==
  [][\A k \in 1..Len(httpRequests') :
       LET button == httpRequests'[k].button
       IN IF IsSuccess(httpRequests'[k].code)
            THEN ledStates'[button] = TRUE
            ELSE ledStates'[button] = ~ledStates[button]]_vars

(***************************************************************************)
(* Configuration uploads: restart, frame, identity, slots                  *)
(***************************************************************************)
\* the step handled a configuration upload on one of the three channels
Uploaded == lastInput'.channel \in {"serial SET_CONFIG", "udp set_config", "http POST"}

\* the document the upload carried, as handleConfigUpload received it
UploadedDoc ==
  LET sent == ConfigPayloads[lastInput'.index]
  IN IF lastInput'.channel = "serial SET_CONFIG" THEN toUpperCaseJson(sent) ELSE sent

\* C26: the device restarts after a configuration upload if and only if the
\* upload changed the network configuration and was saved
C26_RestartIffNetworkChanged ==
  [][Uploaded =>
       (power' = "restart"
          <=> (config'.networkConfig # config.networkConfig
                 /\ preferences' = savedPreferences(preferences, config')))]_vars

\* the payloads that hold the network sub-object and nothing else
NetworkOnlyPayloads ==
  {i \in PayloadIds :
     /\ ConfigPayloads[i].t = "obj"
     /\ Len(ConfigPayloads[i].m) = 1
     /\ ConfigPayloads[i].m[1].k = "network"}

\* the fields of a configuration outside its network section
NonNetworkFields(c) ==
  [deviceName |-> c.deviceConfig.deviceName,
   brightness |-> c.deviceConfig.brightness,
   discoverable |-> c.deviceConfig.discoverable,
   buttons |-> c.buttonConfigs]

\* C27: applying a payload that contains only the network sub-object leaves
\* the device name, brightness, discoverable flag and all 8 button slots as
\* they were
C27_NetworkOnlyFrame ==
  [][(Uploaded /\ lastInput'.index \in NetworkOnlyPayloads)
       => NonNetworkFields(config') = NonNetworkFields(config)]_vars

\* a network-only payload has just been applied to a device whose name and
\* button 3 were configured earlier, and only the network section changed
C27_Witness ==
  /\ lastInput.channel = "udp set_config"
  /\ lastInput.index \in NetworkOnlyPayloads
  /\ power = "restart"
  /\ config.networkConfig.ssid = "lab2"
  /\ config.deviceConfig.deviceName = "Studio"
  /\ config.buttonConfigs[3].name = "Go"

(***************************************************************************)
(* Uploads, saves and reboots of a device whose clients send names of any  *)
(* length                                                                  *)
(***************************************************************************)
\* configuration documents a client may send: a short device name, one of 37
\* characters, new WiFi credentials, one button
StorePayloads ==
  << JObj(<<KV("device", JObj(<<KV("name", JStr("Desk")),
                                KV("brightness", JNum(128))>>))>>),
     JObj(<<KV("device",
               JObj(<<KV("name", JStr("Main stage lighting controller (left)"))>>))>>),
     JObj(<<KV("network", JObj(<<KV("ssid", JStr("lab2")),
                                 KV("password", JStr("pw2"))>>))>>),
     JObj(<<KV("buttons", JArr(<<
            JObj(<<KV("id", JNum(2)), KV("name", JStr("Go")),
                   KV("action", JNum(ACTION_HTTP)), KV("enabled", JLit("false")),
                   KV("config", JObj(<<KV("url", JStr("http://h/a"))>>))>>)>>))>> ) >>

\* the datagram {type: "set_config", device_id, ...payload}
StoreDatagram(i) ==
  JObj(<<KV("type", JStr("set_config")), KV("device_id", JStr(EfuseDeviceId))>>
       \o StorePayloads[i].m)

\* loop(): handleSerialCommands() reads the line SET_CONFIG:<payload>
storeSerialSetConfig ==
  /\ power = "on"
  /\ \E i \in 1..Len(StorePayloads) :
       /\ Becomes(processSerialCommand(Device,
                                       SerialCommand("SET_CONFIG:", StorePayloads[i]), 200))
       /\ lastInput' = Input("serial SET_CONFIG", i)
  /\ UNCHANGED <<loopVars, coordinatorVars>>

\* udpConfig.onPacket: a set_config datagram arrives
storeUdpSetConfig ==
  /\ power = "on"
  /\ wifiConnected
  /\ \E i \in 1..Len(StorePayloads) :
       /\ Becomes(handleConfigRequest(Device, StoreDatagram(i)))
       /\ lastInput' = Input("udp set_config", i)
  /\ UNCHANGED <<loopVars, coordinatorVars>>

\* server.handleClient(): POST /api/config
storeHttpPostConfig ==
  /\ power = "on"
  /\ wifiConnected
  /\ \E i \in 1..Len(StorePayloads) :
       /\ Becomes(handleConfigUpload([Device EXCEPT !.serverClient = TRUE],
                                     StorePayloads[i]))
       /\ lastInput' = Input("http POST", i)
  /\ UNCHANGED <<loopVars, coordinatorVars>>

NextStore ==
  \/ storeSerialSetConfig
  \/ storeUdpSetConfig
  \/ storeHttpPostConfig
  \/ setup

SpecStore == InitDevice /\ [][NextStore]_vars

\* C28: across any sequence of SET_CONFIG, set_config, HTTP configuration
\* uploads, saves and reboots, deviceId, deviceType and firmwareVersion keep
\* their first-boot values
C28_IdentityImmutable ==
  /\ config.deviceConfig.deviceId = EfuseDeviceId
  /\ config.deviceConfig.deviceType = DEVICE_TYPE_BUTTON_MATRIX
  /\ config.deviceConfig.firmwareVersion = VERSION

LongUrl ==
  "http://automation.example/api/v1/scenes/trigger?scene=main-stage-blackout"
  \o "&venue=north-hall&token="
  \o "4f9c2d7a81b35e604f9c2d7a81b35e604f9c2d7a81b35e604f9c2d7a81b35e60"
  \o "4f9c2d7a81b35e604f9c2d7a81b35e604f9c2d7a81b35e604f9c2d7a81b35e60"
  \o "4f9c2d7a81b35e604f9c2d7a8-left/"

\* button arrays a client may send: ids outside 0..7 next to a valid one, a
\* duplicated id, nine entries, one entry whose action configuration is 266
\* characters long, one short entry
SlotPayloads ==
  << JObj(<<KV("buttons", JArr(<<
            JObj(<<KV("id", JNum(8)), KV("name", JStr("Eight"))>>),
            JObj(<<KV("id", JNum(-1)), KV("name", JStr("Minus"))>>),
            JObj(<<KV("id", JNum(3)), KV("name", JStr("Three"))>>)>>))>>),
     JObj(<<KV("buttons", JArr(<<
            JObj(<<KV("id", JNum(1)), KV("name", JStr("A"))>>),
            JObj(<<KV("id", JNum(1)), KV("name", JStr("B")),
                   KV("action", JNum(ACTION_HTTP))>>)>>))>>),
     JObj(<<KV("buttons", JArr(
            [k \in 1..9 |->
               JObj(<<KV("id", JNum(IF k < 3 THEN k - 1 ELSE k)),
                      KV("name", JStr("Scene " \o StringOfInt(k)))>>)]))>>),
     JObj(<<KV("buttons", JArr(<<
            JObj(<<KV("id", JNum(2)), KV("action", JNum(ACTION_WEBHOOK)),
                   KV("config", JObj(<<KV("url", JStr(LongUrl))>>))>>)>>))>>),
     JObj(<<KV("buttons", JArr(<<
            JObj(<<KV("id", JNum(2)), KV("name", JStr("Two")),
                   KV("action", JNum(ACTION_HTTP)),
                   KV("config", JObj(<<KV("url", JStr("http://h/a"))>>))>>)>>))>> ) >>

\* a device that found its WiFi at boot
InitSlots == InitDevice /\ wifiConnected

\* udpConfig.onPacket: a set_config datagram arrives
slotsUdpSetConfig ==
  /\ power = "on"
  /\ wifiConnected
  /\ \E i \in 1..Len(SlotPayloads) :
       /\ Becomes(handleConfigRequest(Device,
            JObj(<<KV("type", JStr("set_config")), KV("device_id", JStr(EfuseDeviceId))>>
                 \o SlotPayloads[i].m)))
       /\ lastInput' = Input("udp set_config", i)
  /\ UNCHANGED <<loopVars, coordinatorVars>>

\* server.handleClient(): POST /api/config
slotsHttpPostConfig ==
  /\ power = "on"
  /\ wifiConnected
  /\ \E i \in 1..Len(SlotPayloads) :
       /\ Becomes(handleConfigUpload([Device EXCEPT !.serverClient = TRUE],
                                     SlotPayloads[i]))
       /\ lastInput' = Input("http POST", i)
  /\ UNCHANGED <<loopVars, coordinatorVars>>

NextSlots ==
  \/ slotsUdpSetConfig
  \/ slotsHttpPostConfig

SpecSlots == InitSlots /\ [][NextSlots]_vars

\* the ids the entries of payload i carry
EntryIds(i) ==
  LET buttons == member(SlotPayloads[i], "buttons").m
  IN {asInt(member(buttons[k], "id")) : k \in 1..Len(buttons)}

\* C29: after any configuration upload, including payloads with button ids
\* outside 0..7, duplicated ids, or fewer or more than 8 entries, the device
\* holds exactly 8 slots indexed 0..7, and a slot changes only if an entry
\* of the payload carries its id
C29_EntryChangesOnlyItsSlot ==
  [][/\ DOMAIN config'.buttonConfigs = ButtonIds
     /\ \A slot \in ButtonIds :
          config'.buttonConfigs[slot] # config.buttonConfigs[slot]
            => slot \in EntryIds(lastInput'.index)]_vars

(***************************************************************************)
(* The coordinator's expiry sweep and pending requests                     *)
(***************************************************************************)
\* the record was written by a discovery message within the last 120 s
SeenRecently(record) == record.lastSeen >= clock - DEVICE_TTL

\* C39: no step, the expiry sweep of discoverDevices included, removes a
\* record whose lastSeen is within the last 120 s, and getDiscoveredDevices
\* returns every such record
C39_SweepKeepsRecent ==
  [][/\ \A i \in 1..Len(discoveredDevices) :
          SeenRecently(discoveredDevices[i].value)
            => /\ mapHas(discoveredDevices', discoveredDevices[i].key)
               /\ lastInput'.channel = "discoverDevices"
                    => mapGet(discoveredDevices', discoveredDevices[i].key)
                         = discoveredDevices[i].value
     /\ lastInput'.channel = "getDiscoveredDevices"
          => \A i \in 1..Len(discoveredDevices) :
               SeenRecently(discoveredDevices[i].value)
                 => \E k \in 1..Len(listed') : listed'[k] = discoveredDevices[i].value]_vars

\* discoverDevices has swept with a cutoff after the service's start and the
\* registry still holds a record last seen exactly at the cutoff
C39_Witness ==
  /\ lastInput.channel = "discoverDevices"
  /\ clock > DEVICE_TTL
  /\ \E i \in 1..Len(discoveredDevices) :
       /\ discoveredDevices[i].value.lastSeen = clock - DEVICE_TTL
       /\ discoveredDevices[i].value.lastSeen > 0

\* the getDeviceConfig calls whose 'device-config-received' listener is registered
Listening == {r \in 1..Len(requests) : requests[r].listening}

\* the getDeviceConfig calls that have not settled
Pending == {r \in 1..Len(requests) : requests[r].promise = "pending"}

\* C38: whenever a getDeviceConfig call has settled, by a matching
\* config_response, a send error or the 5 s timeout, its listener is no
\* longer registered: the registered listeners are those of the calls still
\* pending
C38_ListenersArePending == Listening = Pending

(***************************************************************************)
(* The coordinator's serial upload (SerialService.uploadConfig) to a       *)
(* device that is also configured over the network                         *)
(***************************************************************************)
\* an ActionConfig; "" stands for a field left out
ActionConfig(url, method, body, secret) ==
  [url |-> url, method |-> method, body |-> body, secret |-> secret]

\* a ButtonConfig of the coordinator
ButtonSnapshot(id, name, action, enabled, actionConfig) ==
  [id |-> id, name |-> name, action |-> action, enabled |-> enabled,
   config |-> actionConfig]

\* button id as a new coordinator configuration holds it
FactoryButton(id) ==
  ButtonSnapshot(id, "Button " \o StringOfInt(id), "none", TRUE,
                 ActionConfig("", "", "", ""))

\* the ConfigData snapshots the operator uploads: a small studio setup, one
\* with a request on six buttons, and the factory configuration
UploadSnapshots ==
  << [device |-> [name |-> "Studio", brightness |-> 128, discoverable |-> FALSE],
      network |-> [ssid |-> "lab2", password |-> "pw2", staticIP |-> FALSE,
                   ip |-> "", subnet |-> "", gateway |-> ""],
      buttons |->
        [k \in 1..NUM_BUTTONS |->
           CASE k - 1 = 1 -> ButtonSnapshot(1, "Button 1", "webhook", TRUE,
                               ActionConfig("http://h/w", "", "", "s"))
             [] k - 1 = 3 -> ButtonSnapshot(3, "Go", "http", FALSE,
                               ActionConfig("http://h/a", "GET", "", ""))
             [] OTHER -> FactoryButton(k - 1)]],
     [device |-> [name |-> "Stage", brightness |-> 255, discoverable |-> TRUE],
      network |-> [ssid |-> "lab3", password |-> "pw3", staticIP |-> TRUE,
                   ip |-> "10.0.0.7", subnet |-> "255.255.255.0",
                   gateway |-> "10.0.0.1"],
      buttons |->
        [k \in 1..NUM_BUTTONS |->
           IF k <= 6
             THEN ButtonSnapshot(k - 1, "Scene " \o StringOfInt(k), "http", TRUE,
                    ActionConfig("http://h/scene/" \o StringOfInt(k), "POST", "", ""))
             ELSE FactoryButton(k - 1)]],
     [device |-> [name |-> "PATCOM", brightness |-> 255, discoverable |-> TRUE],
      network |-> [ssid |-> "", password |-> "", staticIP |-> FALSE,
                   ip |-> "", subnet |-> "", gateway |-> ""],
      buttons |-> [k \in 1..NUM_BUTTONS |-> FactoryButton(k - 1)]] >>

\* getArduinoActionType(electronAction): actionMap[electronAction] || 0
getArduinoActionType(electronAction) ==
  CASE electronAction = "none" -> 0
    [] electronAction = "http" -> 1
    [] electronAction = "webhook" -> 2
    [] electronAction = "script" -> 0
    [] OTHER -> 0

\* value || fallback for strings
orDefault(value, fallback) == IF value = "" THEN fallback ELSE value

\* transformActionConfig(actionType, config): the members of the object
transformActionConfig(actionType, actionConfig) ==
  IF actionType = "http" \/ actionType = "webhook"
    THEN <<KV("url", JStr(orDefault(actionConfig.url, ""))),
           KV("method", JStr(orDefault(actionConfig.method, "POST"))),
           KV("body", JStr(orDefault(actionConfig.body, ""))),
           KV("secret", JStr(orDefault(actionConfig.secret, "")))>>
    ELSE <<>>

\* if (condition) section.key = value
memberIf(condition, key, value) == IF condition THEN <<KV(key, value)>> ELSE <<>>

\* transformConfigForArduino, lines 313-325: the device section
deviceSection(device) ==
  memberIf(device.name # "" /\ device.name # "PATCOM", "name", JStr(device.name))
  \o memberIf(device.brightness # 255, "brightness", JNum(device.brightness))
  \o memberIf(~device.discoverable, "discoverable", JLit("false"))

\* transformConfigForArduino, lines 329-341: the network section
networkSection(network) ==
  memberIf(network.ssid # "", "ssid", JStr(network.ssid))
  \o memberIf(network.password # "", "password", JStr(network.password))
  \o memberIf(network.staticIP, "staticIP", JLit("true"))
  \o memberIf(network.staticIP /\ network.ip # "", "ip", JStr(network.ip))
  \o memberIf(network.staticIP /\ network.subnet # "", "subnet", JStr(network.subnet))
  \o memberIf(network.staticIP /\ network.gateway # "", "gateway", JStr(network.gateway))

\* transformConfigForArduino, lines 351-376: the entry of one button, if any
buttonEntry(button) ==
  LET actionType == getArduinoActionType(button.action)
      hasCustomName == button.name # "Button " \o StringOfInt(button.id)
      hasAction == actionType # 0
      isDisabled == ~button.enabled
      transformed == transformActionConfig(button.action, button.config)
      hasActionConfig == Len(transformed) > 0
  IN IF hasCustomName \/ hasAction \/ isDisabled \/ hasActionConfig
       THEN <<JObj(<<KV("id", JNum(button.id))>>
                   \o memberIf(hasCustomName, "name", JStr(button.name))
                   \o memberIf(hasAction, "action", JNum(actionType))
                   \o memberIf(isDisabled, "enabled", JLit("false"))
                   \o memberIf(hasActionConfig, "config", JObj(transformed)))>>
       ELSE <<>>

RECURSIVE buttonsArrayFrom(_, _)
\* configData.buttons.forEach: the entries pushed from button k on
buttonsArrayFrom(buttons, k) ==
  IF k > Len(buttons) THEN <<>>
  ELSE buttonEntry(buttons[k]) \o buttonsArrayFrom(buttons, k + 1)

\* transformConfigForArduino(configData): the sections that have members
transformConfigForArduino(configData) ==
  JObj(memberIf(Len(deviceSection(configData.device)) > 0, "device",
                JObj(deviceSection(configData.device)))
       \o memberIf(Len(networkSection(configData.network)) > 0, "network",
                   JObj(networkSection(configData.network)))
       \o memberIf(Len(buttonsArrayFrom(configData.buttons, 1)) > 0, "buttons",
                   JArr(buttonsArrayFrom(configData.buttons, 1))))

\* uploadConfig sends its fallback: the JSON is longer than 500 characters
\* and the network-only JSON is at most 200
MAX_CONFIG_JSON == 500
MAX_NETWORK_JSON == 200

\* { n: arduinoConfig.n || {} }
networkOnlyConfig(arduinoConfig) ==
  JObj(<<KV("n", IF containsKey(arduinoConfig, "n")
                   THEN member(arduinoConfig, "n") ELSE JObj(<<>>))>>)

fallsBack(configData) ==
  LET arduinoConfig == transformConfigForArduino(configData)
  IN /\ Len(serializeJson(arduinoConfig)) > MAX_CONFIG_JSON
     /\ Len(serializeJson(networkOnlyConfig(arduinoConfig))) <= MAX_NETWORK_JSON

\* uploadConfig(configData): the document of the SET_CONFIG line it writes
uploadConfigSends(configData) ==
  IF fallsBack(configData)
    THEN networkOnlyConfig(transformConfigForArduino(configData))
    ELSE transformConfigForArduino(configData)

\* the operator uploads a snapshot over the serial port; the device reads
\* the line in loop()
uploadConfig ==
  /\ power = "on"
  /\ \E k \in 1..Len(UploadSnapshots) :
       /\ Becomes(processSerialCommand(Device,
            SerialCommand("SET_CONFIG:", uploadConfigSends(UploadSnapshots[k])), 200))
       /\ lastInput' = Input("uploadConfig", k)
  /\ UNCHANGED <<loopVars, coordinatorVars>>

NextUpload ==
  \/ uploadConfig
  \/ storeUdpSetConfig
  \/ storeHttpPostConfig
  \/ setup

SpecUpload == InitDevice /\ [][NextUpload]_vars

\* enum ActionType: the code the firmware gives the action a coordinator
\* button can carry
firmwareActionType(electronAction) ==
  CASE electronAction = "none" -> ACTION_NONE
    [] electronAction = "http" -> ACTION_HTTP
    [] electronAction = "webhook" -> ACTION_WEBHOOK

\* the snapshot of the last upload
UploadedSnapshot == UploadSnapshots[lastInput.index]

\* the document the last upload wrote to the serial port
Sent == uploadConfigSends(UploadedSnapshot)

\* C36: every action code in an uploaded document is the code the firmware's
\* ActionType enum gives the action the coordinator's button carries
C36_ActionCodesAgree ==
  (lastInput.channel = "uploadConfig" /\ containsKey(Sent, "buttons"))
    => \A e \in 1..Len(member(Sent, "buttons").m) :
         LET entry == member(Sent, "buttons").m[e]
             button == UploadedSnapshot.buttons[member(entry, "id").n + 1]
             code == IF containsKey(entry, "action")
                       THEN member(entry, "action").n ELSE ACTION_NONE
         IN code = firmwareActionType(button.action)

\* the device's network configuration is the snapshot's
NetworkMatches(c, network) ==
  /\ c.networkConfig.ssid = network.ssid
  /\ c.networkConfig.password = network.password
  /\ c.networkConfig.staticIP = network.staticIP
  /\ network.staticIP =>
       /\ c.networkConfig.ip = network.ip
       /\ c.networkConfig.subnet = network.subnet
       /\ c.networkConfig.gateway = network.gateway

\* C37: after an upload that fell back to the network-only document, the
\* document carries the snapshot's network section under the key "network"
\* and the device's network configuration is the snapshot's
C37_FallbackCarriesNetwork ==
  (lastInput.channel = "uploadConfig" /\ fallsBack(UploadedSnapshot))
    => /\ containsKey(Sent, "network")
       /\ NetworkMatches(config, UploadedSnapshot.network)

\* the device's button is the snapshot's
ButtonMatches(c, button) ==
  /\ c.buttonConfigs[button.id].name = button.name
  /\ c.buttonConfigs[button.id].action = firmwareActionType(button.action)
  /\ c.buttonConfigs[button.id].enabled = button.enabled
  /\ c.buttonConfigs[button.id].actionData
       = JObj(transformActionConfig(button.action, button.config))

\* C35: after an upload of the full document the device's buttons, name,
\* brightness and discoverable flag are the snapshot's
C35_FullUploadMatches ==
  (lastInput.channel = "uploadConfig" /\ ~fallsBack(UploadedSnapshot))
    => /\ \A k \in 1..Len(UploadedSnapshot.buttons) : ButtonMatches(config, UploadedSnapshot.buttons[k])
       /\ config.deviceConfig.deviceName = UploadedSnapshot.device.name
       /\ config.deviceConfig.brightness = UploadedSnapshot.device.brightness
       /\ config.deviceConfig.discoverable = UploadedSnapshot.device.discoverable

(***************************************************************************)
(* The configuration hash against the fold it is described as              *)
(***************************************************************************)
RECURSIVE buttonsStr(_, _)
\* name, action code and actionData of the buttons i..7, one after the other
buttonsStr(bc, i) ==
  IF i >= NUM_BUTTONS THEN ""
  ELSE bc[i].name \o StringOfInt(bc[i].action) \o serializeJson(bc[i].actionData)
       \o buttonsStr(bc, i + 1)

\* configStr of generateConfigHash
configStr(c) ==
  c.deviceConfig.deviceName \o StringOfInt(c.deviceConfig.brightness)
  \o c.networkConfig.ssid \o buttonsStr(c.buttonConfigs, 0)

\* (h * 31 + c) mod 2^32 on the four bytes of h, least significant first
foldStep(h, c) ==
  LET b0 == h[1] * 31 + c
      b1 == h[2] * 31 + (b0 \div 256)
      b2 == h[3] * 31 + (b1 \div 256)
      b3 == h[4] * 31 + (b2 \div 256)
  IN <<b0 % 256, b1 % 256, b2 % 256, b3 % 256>>

RECURSIVE foldOver(_, _, _, _)
\* h := (h * 31 + c) mod 2^32 over the characters first..last of s, in order
foldOver(s, first, last, h) ==
  CASE first > last -> h
    [] first = last -> foldStep(h, charCode(SubSeq(s, first, first)))
    [] OTHER -> LET middle == (first + last) \div 2
                    left == foldOver(s, first, middle, h)
                IN IF Len(left) = 4 THEN foldOver(s, middle + 1, last, left)
                   ELSE left

\* the two hexadecimal digits of a byte
hexOfByte(b) ==
  SubSeq(HexDigits, (b \div 16) + 1, (b \div 16) + 1)
  \o SubSeq(HexDigits, (b % 16) + 1, (b % 16) + 1)

RECURSIVE withoutLeadingZeros(_)
withoutLeadingZeros(s) ==
  IF Len(s) > 1 /\ SubSeq(s, 1, 1) = "0"
    THEN withoutLeadingZeros(SubSeq(s, 2, Len(s)))
    ELSE s

\* the fold of configStr from 0, rendered in hexadecimal
foldInHex(c) ==
  LET h == foldOver(configStr(c), 1, Len(configStr(c)), <<0, 0, 0, 0>>)
  IN withoutLeadingZeros(hexOfByte(h[4]) \o hexOfByte(h[3])
                         \o hexOfByte(h[2]) \o hexOfByte(h[1]))

\* C33: the configuration hash is the fold h := (h * 31 + c) mod 2^32 from 0
\* over deviceName, brightness, ssid and each button's name, action code and
\* actionData, in hexadecimal; the hash cached at a save is the hash of the
\* configuration a restart loads from flash
C33_HashIsTheFold ==
  /\ generateConfigHash(config) = foldInHex(config)
  /\ lastConfigHash # ""
       => lastConfigHash = generateConfigHash(loadConfiguration(preferences))

\* the device has rebooted with a name, a brightness and a button set by
\* uploads, and its hash is not the factory configuration's
C33_Witness ==
  /\ lastInput.channel = "boot"
  /\ power = "on"
  /\ config.deviceConfig.deviceName = "Desk"
  /\ config.deviceConfig.brightness = 128
  /\ config.buttonConfigs[2].action = ACTION_HTTP
  /\ generateConfigHash(config) # generateConfigHash(DefaultConfig)
  /\ Len(generateConfigHash(config)) >= 7

\* C31: a step that changes any field of the configuration changes its hash
C31_HashCoversAllFields ==
  [][config' # config => generateConfigHash(config') # generateConfigHash(config)]_vars

\* C34: on a running device the cached hash is the hash of the configuration
\* in memory
C34_CacheNeverStale ==
  power = "on" => lastConfigHash = generateConfigHash(config)

(***************************************************************************)
(* The periodic config sync of a device provisioned with a config server   *)
(***************************************************************************)
\* flash holding WiFi credentials, autoSync and the config server's address
SyncFlash ==
  savedPreferences(<<>>,
    [DefaultConfig EXCEPT !.networkConfig.ssid = "lab",
                          !.networkConfig.password = "wpa-key",
                          !.deviceConfig.autoSync = TRUE,
                          !.deviceConfig.configServerUrl = "http://cfg/sync"])

InitSync ==
  /\ Is(Booted(SyncFlash, TRUE))
  /\ lastInput = Input("boot", 0)
  /\ InitLoop
  /\ InitCoordinator

\* the uploads made here: a new name and brightness, new WiFi credentials
SyncPayloads == {1, 3}

\* udpConfig.onPacket: a set_config datagram arrives
syncUdpSetConfig ==
  /\ power = "on"
  /\ wifiConnected
  /\ \E i \in SyncPayloads :
       /\ Becomes(handleConfigRequest(Device, StoreDatagram(i)))
       /\ lastInput' = Input("udp set_config", i)
  /\ UNCHANGED <<loopVars, coordinatorVars>>

\* the model stops the clock of this device after this many milliseconds of
\* uptime
MaxSyncAwake == 150000

syncLoopIteration == loopIterationWithin(MaxSyncAwake)

NextSync ==
  \/ syncLoopIteration
  \/ syncUdpSetConfig
  \/ \E i \in OperatedButtons : pressButton(i)
  \/ \E i \in OperatedButtons : releaseButton(i)
  \/ setup

\* loop() keeps running and a restart boots
SpecSync ==
  InitSync /\ [][NextSync]_vars /\ WF_vars(syncLoopIteration) /\ WF_vars(setup)

\* the loop iteration just followed has run the periodic config sync (the
\* time until the next iteration has passed since)
SyncRan ==
  /\ lastInput.channel = "loop"
  /\ power = "on"
  /\ \E dt \in PowerSteps : lastConfigSync + dt = millis

\* the last step POSTed the hash of the configuration to the config server
PostedHash ==
  \E r \in 1..Len(httpRequests) :
    /\ httpRequests[r].kind = "sync"
    /\ httpRequests[r].url = config.deviceConfig.configServerUrl
    /\ httpRequests[r].hash = generateConfigHash(config)

\* C40: when the periodic sync has run on a device whose saved configuration
\* has a hash the config server does not hold yet, it has POSTed that hash
C40_SyncReportsChange ==
  (SyncRan /\ preferences = savedPreferences(preferences, config)
           /\ configServerHash # generateConfigHash(config))
    => PostedHash

(***************************************************************************)
(* Two tasks in handleConfigUpload.  loop() runs in the Arduino loop task  *)
(* and reads serial lines there; the lambda given to udpConfig.onPacket    *)
(* calls handleConfigRequest itself, in the task AsyncUDP delivers packets *)
(* in.  Both work on the same globals, with nothing to keep them apart: a  *)
(* task is followed from section to section of handleConfigUpload.         *)
(***************************************************************************)
InitTasks == InitDevice /\ wifiConnected

\* the documents sent here: a device section, a network section, a button
\* entry
TaskPayloads == {1, 3, 4}

\* the task is in handleConfigUpload, about to run the part pc on doc
Running(pc, doc) == [pc |-> pc, doc |-> doc]

\* the parts of handleConfigUpload after the device section, in order
partAfter(pc) ==
  CASE pc = "network" -> "buttons"
    [] pc = "buttons" -> "save"
    [] pc = "save" -> "idle"

\* one part of handleConfigUpload on the globals as they are now
uploadPart(d, pc, doc) ==
  CASE pc = "network" -> uploadNetwork(d, doc)
    [] pc = "buttons" -> uploadButtons(d, doc)
    [] pc = "save" -> uploadSaved(d, doc)

\* handleConfigRequest, lines 1178-1188: the reply after handleConfigUpload
\* has returned
replied(d, pc) ==
  IF pc = "save" /\ d.power = "on"
    THEN udpReply(d, "config_update_response", TRUE)
    ELSE d

\* loop(): handleSerialCommands() reads a SET_CONFIG line; the line is
\* upper-cased, parsed, and the device section is looked for
taskSerialSetConfig ==
  /\ power = "on"
  /\ tasks["loop"].pc = "idle"
  /\ \E i \in TaskPayloads :
       /\ Becomes(uploadDevice(Device, toUpperCaseJson(StorePayloads[i])))
       /\ tasks' = [tasks EXCEPT !["loop"] =
                      Running("network", toUpperCaseJson(StorePayloads[i]))]
       /\ lastInput' = Input("serial SET_CONFIG", i)
  /\ UNCHANGED <<millis, buttonLine, lastButtonPress, lastPowerCheck,
                 lastDiscoveryBroadcast, lastConfigSync, configServerHash,
                 holds, pollEvents, coordinatorVars>>

\* the loop task runs the next part of handleConfigUpload
taskLoopStep ==
  /\ power = "on"
  /\ tasks["loop"].pc # "idle"
  /\ Becomes(uploadPart(Device, tasks["loop"].pc, tasks["loop"].doc))
  /\ tasks' = [tasks EXCEPT !["loop"] =
                 IF partAfter(tasks["loop"].pc) = "idle"
                   THEN Running("idle", NoPayload)
                   ELSE Running(partAfter(tasks["loop"].pc), tasks["loop"].doc)]
  /\ lastInput' = Input("loop task", 0)
  /\ UNCHANGED <<millis, buttonLine, lastButtonPress, lastPowerCheck,
                 lastDiscoveryBroadcast, lastConfigSync, configServerHash,
                 holds, pollEvents, coordinatorVars>>

\* udpConfig.onPacket: a set_config datagram arrives and the callback calls
\* handleConfigRequest, which parses it and enters handleConfigUpload
taskUdpSetConfig ==
  /\ power = "on"
  /\ wifiConnected
  /\ tasks["udp"].pc = "idle"
  /\ \E i \in TaskPayloads :
       /\ Becomes(uploadDevice(Device, StoreDatagram(i)))
       /\ tasks' = [tasks EXCEPT !["udp"] = Running("network", StoreDatagram(i))]
       /\ lastInput' = Input("udp set_config", i)
  /\ UNCHANGED <<millis, buttonLine, lastButtonPress, lastPowerCheck,
                 lastDiscoveryBroadcast, lastConfigSync, configServerHash,
                 holds, pollEvents, coordinatorVars>>

\* the callback's task runs the next part of handleConfigUpload, and
\* answers when it has returned
taskUdpStep ==
  /\ power = "on"
  /\ tasks["udp"].pc # "idle"
  /\ Becomes(replied(uploadPart(Device, tasks["udp"].pc, tasks["udp"].doc),
                     tasks["udp"].pc))
  /\ tasks' = [tasks EXCEPT !["udp"] =
                 IF partAfter(tasks["udp"].pc) = "idle"
                   THEN Running("idle", NoPayload)
                   ELSE Running(partAfter(tasks["udp"].pc), tasks["udp"].doc)]
  /\ lastInput' = Input("udp task", 0)
  /\ UNCHANGED <<millis, buttonLine, lastButtonPress, lastPowerCheck,
                 lastDiscoveryBroadcast, lastConfigSync, configServerHash,
                 holds, pollEvents, coordinatorVars>>

NextTasks ==
  \/ taskSerialSetConfig
  \/ taskLoopStep
  \/ taskUdpSetConfig
  \/ taskUdpStep
  \/ setup

SpecTasks == InitTasks /\ [][NextTasks]_vars

\* C32: the callback's task is never inside the handling of a set_config
\* packet while the loop task is inside its handling of a SET_CONFIG line
C32_NoInterleaving ==
  ~(tasks["loop"].pc # "idle" /\ tasks["udp"].pc # "idle")

====
